---- MODULE Spec2Model ----
(***************************************************************************)
(* A model of the ABAC policy core of pol-tree (src/ip_based): the         *)
(* condition/expression evaluator, the destination-only applicability      *)
(* filter, the source-requirement extractor and merger, the attribute      *)
(* encoder with its threshold ladders, the key compiler and the            *)
(* classifier that ties them together.                                     *)
(*                                                                         *)
(* The core is a set of pure functions.  Each is an operator below,        *)
(* computed the way the Rust code computes it; the state machine is a      *)
(* caller that invokes one of them on inputs drawn from bounded sets and   *)
(* records the call and what it returned.                                  *)
(***************************************************************************)
EXTENDS Integers, Sequences, FiniteSets, TLC

VARIABLES
    call,      \* the call made: [op |-> name of the function, ...arguments]
    result     \* what the call returned

vars == <<call, result>>

(***************************************************************************)
(* Bounds of the model.                                                    *)
(***************************************************************************)
\* numeric literals and numeric attribute values range over 0..MaxNum
MaxNum == 2
\* And/Or operand lists have at most MaxOperands entries
MaxOperands == 2
\* the policies of a call hold at most MaxRules rules in all
MaxRules == 2
\* a call compiles at most MaxDests destinations
MaxDests == 2
\* the longest list of requirements merged
MaxReqs == 3
\* the longest threshold ladder enumerated
MaxLadder == 2
\* the longest list of ids or set members encoded
MaxIds == 2

(***************************************************************************)
(* Result<T, String>                                                       *)
(***************************************************************************)
Ok(v) == [ok |-> TRUE, val |-> v]
Err(msg) == [ok |-> FALSE, err |-> msg]

\* the `?` operator: the error returned at once, else the rest on the value
Try(r, rest(_)) == IF r.ok THEN rest(r.val) ELSE r

\* str::starts_with
StartsWith(s, p) == Len(s) >= Len(p) /\ SubSeq(s, 1, Len(p)) = p

\* Vec::contains / slice::contains
Contains(vec, x) == \E i \in 1..Len(vec) : vec[i] = x

(***************************************************************************)
(* entity.rs: AttributeValue, SourceEntity, DestinationEntity              *)
(***************************************************************************)
StringValue(s) == [t |-> "String", v |-> s]
NumberValue(n) == [t |-> "Number", v |-> n]
SetValue(vec) == [t |-> "Set", v |-> vec]
BooleanValue(b) == [t |-> "Boolean", v |-> b]

\* a comparison that coerces numbers to their decimal text
AttributeValueEq_Coercing(a, b) ==
    LET text(x) == IF x.t = "Number" THEN ToString(x.v) ELSE x.v IN
    IF {a.t, b.t} \subseteq {"Number", "String"}
    THEN text(a) = text(b)
    ELSE a.t = b.t /\ a.v = b.v

\* #[derive(PartialEq)] on AttributeValue: same variant, then equal payloads
AttributeValueEq(a, b) == a.t = b.t /\ a.v = b.v

\* The closed key enumerations and their external names.
SourceEntityAttributeKey ==
    ("Src.Role" :> "Role") @@ ("Src.Dept" :> "Dept")
    @@ ("Src.TrustScore" :> "TrustScore") @@ ("Src.Groups" :> "Groups")
    @@ ("Src.SessionCount" :> "SessionCount")

DestinationEntityAttributeKey ==
    ("Dst.Type" :> "Type") @@ ("Dst.OwnerDept" :> "OwnerDept")
    @@ ("Dst.Sensitivity" :> "Sensitivity")
    @@ ("Dst.AllowedVLANs" :> "AllowedVLANs")

\* an entity: its ip and the attributes it carries (a partial map)
Entity(ip, attributes) == [ip |-> ip, attributes |-> attributes]

\* the placeholder source of evaluate_dest_only and collect_src_requirements
dummy_source == Entity("", <<>>)

\* HashMap::new() for the environment
empty_env == <<>>

(***************************************************************************)
(* rule.rs: Expression and Condition trees                                 *)
(***************************************************************************)
LiteralString(s) == [e |-> "LiteralString", s |-> s]
LiteralNumber(n) == [e |-> "LiteralNumber", n |-> n]
AttributeRef(name) == [e |-> "AttributeRef", name |-> name]
EnvRef(name) == [e |-> "EnvRef", name |-> name]
Add(operands) == [e |-> "Add", operands |-> operands]
Multiply(operands) == [e |-> "Multiply", operands |-> operands]

And(operands) == [c |-> "And", operands |-> operands]
Or(operands) == [c |-> "Or", operands |-> operands]
Eq(lhs, rhs) == [c |-> "Eq", lhs |-> lhs, rhs |-> rhs]
Gte(lhs, rhs) == [c |-> "Gte", lhs |-> lhs, rhs |-> rhs]
Gt(lhs, rhs) == [c |-> "Gt", lhs |-> lhs, rhs |-> rhs]
Lt(lhs, rhs) == [c |-> "Lt", lhs |-> lhs, rhs |-> rhs]
In(target, check_against) ==
    [c |-> "In", target |-> target, check_against |-> check_against]
InSet(value, set) == [c |-> "InSet", value |-> value, set |-> set]

Rule(id, effect, condition) ==
    [id |-> id, effect |-> effect, condition |-> condition]
Policy(default_effect, rules) ==
    [default_effect |-> default_effect, rules |-> rules]

(***************************************************************************)
(* rule.rs: Expression::evaluate                                           *)
(***************************************************************************)
get_source_attribute(source, attr_name) ==
    IF attr_name \in DOMAIN SourceEntityAttributeKey
    THEN LET key == SourceEntityAttributeKey[attr_name] IN
         IF key \in DOMAIN source.attributes
         THEN Ok(source.attributes[key])
         ELSE Err("Attribute not found: " \o attr_name)
    ELSE Err("Unknown source attribute: " \o attr_name)

get_destination_attribute(destination, attr_name) ==
    IF attr_name \in DOMAIN DestinationEntityAttributeKey
    THEN LET key == DestinationEntityAttributeKey[attr_name] IN
         IF key \in DOMAIN destination.attributes
         THEN Ok(destination.attributes[key])
         ELSE Err("Attribute not found: " \o attr_name)
    ELSE Err("Unknown destination attribute: " \o attr_name)

\* Iterator::sum and Iterator::product over the collected i64 operands, for
\* operands so small that no partial result leaves i64 (the operands of
\* SpecEval); AddNumbers and MultiplyNumbers compute them at full width
RECURSIVE I64Sum(_)
I64Sum(values) ==
    IF values = <<>> THEN 0 ELSE Head(values) + I64Sum(Tail(values))

RECURSIVE I64Product(_)
I64Product(values) ==
    IF values = <<>> THEN 1 ELSE Head(values) * I64Product(Tail(values))

RECURSIVE Expression_evaluate(_, _, _, _)
RECURSIVE CollectNumbers(_, _, _, _, _)

\* operands.iter().map(|expr| ... Number(n) => Ok(n), _ => Err(msg)).collect():
\* the numbers of all operands, or the first error met from the left
CollectNumbers(operands, source, destination, env, msg) ==
    IF operands = <<>> THEN Ok(<<>>)
    ELSE Try(Expression_evaluate(Head(operands), source, destination, env),
             LAMBDA val :
                IF val.t # "Number" THEN Err(msg)
                ELSE Try(CollectNumbers(Tail(operands), source, destination,
                                        env, msg),
                         LAMBDA rest : Ok(<<val.v>> \o rest)))

Expression_evaluate(expr, source, destination, env) ==
    CASE expr.e = "LiteralString" -> Ok(StringValue(expr.s))
      [] expr.e = "LiteralNumber" -> Ok(NumberValue(expr.n))
      [] expr.e = "AttributeRef" ->
            IF StartsWith(expr.name, "Src.")
            THEN get_source_attribute(source, expr.name)
            ELSE IF StartsWith(expr.name, "Dst.")
            THEN get_destination_attribute(destination, expr.name)
            ELSE Err("Unknown attribute reference: " \o expr.name)
      [] expr.e = "EnvRef" ->
            IF expr.name \in DOMAIN env
            THEN Ok(env[expr.name])
            ELSE Err("Environment variable not found: " \o expr.name)
      [] expr.e = "Add" ->
            Try(CollectNumbers(expr.operands, source, destination, env,
                               "ADD operands must be numbers"),
                LAMBDA values : Ok(NumberValue(I64Sum(values))))
      [] expr.e = "Multiply" ->
            Try(CollectNumbers(expr.operands, source, destination, env,
                               "MULTIPLY operands must be numbers"),
                LAMBDA values : Ok(NumberValue(I64Product(values))))

RECURSIVE Expression_references_dst(_)
Expression_references_dst(expr) ==
    CASE expr.e = "AttributeRef" -> StartsWith(expr.name, "Dst.")
      [] expr.e \in {"Add", "Multiply"} ->
            \E i \in 1..Len(expr.operands) :
                Expression_references_dst(expr.operands[i])
      [] OTHER -> FALSE

RECURSIVE references_src_or_env(_)
references_src_or_env(expr) ==
    CASE expr.e = "AttributeRef" ->
            StartsWith(expr.name, "Src.") \/ StartsWith(expr.name, "Env.")
      [] expr.e \in {"Add", "Multiply"} ->
            \E i \in 1..Len(expr.operands) :
                references_src_or_env(expr.operands[i])
      [] OTHER -> FALSE

(***************************************************************************)
(* rule.rs: Condition::evaluate                                            *)
(***************************************************************************)
\* the closures passed as cmp: |a, b| a >= b, |a, b| a < b, |a, b| a > b
Cmp(cmp, a, b) ==
    CASE cmp = "Gte" -> a >= b
      [] cmp = "Lt" -> a < b
      [] cmp = "Gt" -> a > b

compare_values(lhs, rhs, cmp) ==
    IF lhs.t = "Number" /\ rhs.t = "Number"
    THEN Ok(Cmp(cmp, lhs.v, rhs.v))
    ELSE Err("Comparison requires numbers")

\* the match accepting the String and the Set in either position
StringInSet_EitherOrder(elem, set) ==
    IF elem.t = "String" /\ set.t = "Set"
    THEN Ok(Contains(set.v, elem.v))
    ELSE IF elem.t = "Set" /\ set.t = "String"
    THEN Ok(Contains(elem.v, set.v))
    ELSE Err("IN operator requires String and Set")

\* the match on (String, Set) shared by In and InSet
StringInSet(elem, set) ==
    IF elem.t = "String" /\ set.t = "Set"
    THEN Ok(Contains(set.v, elem.v))
    ELSE Err("IN operator requires String and Set")

\* a leaf: evaluate the left side, then the right side, then apply the test
LeafEvaluate(cond, source, destination, env) ==
    LET sides == CASE cond.c = "In" -> <<cond.target, cond.check_against>>
                   [] cond.c = "InSet" -> <<cond.value, cond.set>>
                   [] OTHER -> <<cond.lhs, cond.rhs>>
    IN  Try(Expression_evaluate(sides[1], source, destination, env),
            LAMBDA lhs_val :
        Try(Expression_evaluate(sides[2], source, destination, env),
            LAMBDA rhs_val :
        CASE cond.c = "Eq" -> Ok(AttributeValueEq(lhs_val, rhs_val))
          [] cond.c = "Gte" -> compare_values(lhs_val, rhs_val, "Gte")
          [] cond.c = "Lt" -> compare_values(lhs_val, rhs_val, "Lt")
          [] cond.c = "Gt" -> compare_values(lhs_val, rhs_val, "Gt")
          [] cond.c \in {"In", "InSet"} ->
                StringInSet(lhs_val, rhs_val)))

RECURSIVE Condition_evaluate(_, _, _, _)
RECURSIVE AndLoop(_, _, _, _)
RECURSIVE OrLoop(_, _, _, _)

\* And evaluating every operand, the last one first, before deciding
RECURSIVE AndLoop_Eager(_, _, _, _)
AndLoop_Eager(operands, source, destination, env) ==
    IF operands = <<>> THEN Ok(TRUE)
    ELSE Try(AndLoop_Eager(Tail(operands), source, destination, env),
             LAMBDA rest :
                Try(Condition_evaluate(Head(operands), source, destination, env),
                    LAMBDA r : Ok(r /\ rest)))

\* for cond in operands { if !cond.evaluate(..)? { return Ok(false) } } Ok(true)
AndLoop(operands, source, destination, env) ==
    IF operands = <<>> THEN Ok(TRUE)
    ELSE Try(Condition_evaluate(Head(operands), source, destination, env),
             LAMBDA r : IF ~r THEN Ok(FALSE)
                        ELSE AndLoop(Tail(operands), source, destination, env))

\* for cond in operands { if cond.evaluate(..)? { return Ok(true) } } Ok(false)
OrLoop(operands, source, destination, env) ==
    IF operands = <<>> THEN Ok(FALSE)
    ELSE Try(Condition_evaluate(Head(operands), source, destination, env),
             LAMBDA r : IF r THEN Ok(TRUE)
                        ELSE OrLoop(Tail(operands), source, destination, env))

Condition_evaluate(cond, source, destination, env) ==
    CASE cond.c = "And" -> AndLoop(cond.operands, source, destination, env)
      [] cond.c = "Or" -> OrLoop(cond.operands, source, destination, env)
      [] OTHER -> LeafEvaluate(cond, source, destination, env)

\* Rule::matches
matches(rule, source, destination, env) ==
    Condition_evaluate(rule.condition, source, destination, env)

RECURSIVE references_dst(_)
references_dst(cond) ==
    CASE cond.c \in {"And", "Or"} ->
            \E i \in 1..Len(cond.operands) : references_dst(cond.operands[i])
      [] cond.c = "In" ->
            Expression_references_dst(cond.target)
            \/ Expression_references_dst(cond.check_against)
      [] cond.c = "InSet" ->
            Expression_references_dst(cond.value)
            \/ Expression_references_dst(cond.set)
      [] OTHER ->
            Expression_references_dst(cond.lhs)
            \/ Expression_references_dst(cond.rhs)

(***************************************************************************)
(* rule.rs: Condition::evaluate_dest_only                                  *)
(***************************************************************************)
\* a leaf of evaluate_dest_only: true without evaluation when a side
\* references Src or Env, else evaluated on the placeholder source
LeafEvaluateDestOnly(cond, dest_entity) ==
    LET sides == CASE cond.c = "In" -> <<cond.target, cond.check_against>>
                   [] cond.c = "InSet" -> <<cond.value, cond.set>>
                   [] OTHER -> <<cond.lhs, cond.rhs>>
    IN  IF references_src_or_env(sides[1]) \/ references_src_or_env(sides[2])
        THEN Ok(TRUE)
        ELSE LeafEvaluate(cond, dummy_source, dest_entity, empty_env)

RECURSIVE evaluate_dest_only(_, _)
RECURSIVE AndLoopDestOnly(_, _)
RECURSIVE OrLoopDestOnly(_, _, _)

AndLoopDestOnly(operands, dest_entity) ==
    IF operands = <<>> THEN Ok(TRUE)
    ELSE IF ~references_dst(Head(operands))
    THEN AndLoopDestOnly(Tail(operands), dest_entity)
    ELSE Try(evaluate_dest_only(Head(operands), dest_entity),
             LAMBDA r : IF ~r THEN Ok(FALSE)
                        ELSE AndLoopDestOnly(Tail(operands), dest_entity))

\* the Or loop that never records that it met a Dst operand
OrLoopDestOnly_NoFlag(operands, dest_entity, has_dst) ==
    IF operands = <<>> THEN Ok(~has_dst)
    ELSE IF ~references_dst(Head(operands))
    THEN OrLoopDestOnly(Tail(operands), dest_entity, has_dst)
    ELSE Try(evaluate_dest_only(Head(operands), dest_entity),
             LAMBDA r : IF r THEN Ok(TRUE)
                        ELSE OrLoopDestOnly(Tail(operands), dest_entity, has_dst))

OrLoopDestOnly(operands, dest_entity, has_dst) ==
    IF operands = <<>> THEN Ok(~has_dst)
    ELSE IF ~references_dst(Head(operands))
    THEN OrLoopDestOnly(Tail(operands), dest_entity, has_dst)
    ELSE Try(evaluate_dest_only(Head(operands), dest_entity),
             LAMBDA r : IF r THEN Ok(TRUE)
                        ELSE OrLoopDestOnly(Tail(operands), dest_entity, TRUE))

evaluate_dest_only(cond, dest_entity) ==
    CASE cond.c = "And" -> AndLoopDestOnly(cond.operands, dest_entity)
      [] cond.c = "Or" -> OrLoopDestOnly(cond.operands, dest_entity, FALSE)
      [] OTHER -> LeafEvaluateDestOnly(cond, dest_entity)

(***************************************************************************)
(* rule_requirements.rs: collect_src_requirements                          *)
(***************************************************************************)
\* Option<T>
None == <<>>
Some(x) == <<x>>

Exact(attr, value) == [r |-> "Exact", attr |-> attr, value |-> value]
Containment(attr, allowed_set) ==
    [r |-> "Containment", attr |-> attr, allowed_set |-> allowed_set]
Numeric(attr, required_ge, required_lt) ==
    [r |-> "Numeric", attr |-> attr,
     required_ge |-> required_ge, required_lt |-> required_lt]

eval_expr_with_dest(expr, dest) ==
    Expression_evaluate(expr, dummy_source, dest, empty_env)

get_src_attr_name(expr) ==
    IF expr.e = "AttributeRef" /\ StartsWith(expr.name, "Src.")
    THEN Some(expr.name) ELSE None

\* the Eq arm
CollectEq(lhs, rhs, dest) ==
    LET l == get_src_attr_name(lhs)
        r == get_src_attr_name(rhs)
        emit(attr, other) ==
            Try(eval_expr_with_dest(other, dest),
                LAMBDA value : Ok(<<Exact(attr, value)>>))
    IN  IF l # None
        THEN IF references_src_or_env(rhs) THEN Ok(<<>>) ELSE emit(l[1], rhs)
        ELSE IF r # None
        THEN IF references_src_or_env(lhs) THEN Ok(<<>>) ELSE emit(r[1], lhs)
        ELSE Ok(<<>>)

\* the forward arms with the Gt threshold left as it is
ForwardBound_NoShift(op, attr, t) ==
    CASE op = "Gte" -> Numeric(attr, <<t>>, <<>>)
      [] op = "Gt" -> Numeric(attr, <<t>>, <<>>)
      [] op = "Lt" -> Numeric(attr, <<>>, <<t>>)

\* the requirement pushed for `Src.X op t`, op the arm's comparison; t + 1
\* is exact for the bounds of SpecCollect, GtBound computes it at full width
ForwardBound(op, attr, t) ==
    CASE op = "Gte" -> Numeric(attr, <<t>>, <<>>)
      [] op = "Gt" -> Numeric(attr, <<t + 1>>, <<>>)
      [] op = "Lt" -> Numeric(attr, <<>>, <<t>>)

\* the requirement pushed for `t op Src.X`
ReverseBound(op, attr, t) ==
    CASE op = "Gte" -> Numeric(attr, <<t>>, <<>>)
      [] op = "Gt" -> Numeric(attr, <<>>, <<t + 1>>)
      [] op = "Lt" -> Numeric(attr, <<>>, <<t>>)

\* the Gte, Gt and Lt arms: the two `if let Some(attr)` blocks in turn
CollectCmp(lhs, rhs, dest, op) ==
    LET l == get_src_attr_name(lhs)
        r == get_src_attr_name(rhs)
        first_applies == l # None /\ ~references_src_or_env(rhs)
        second_applies == r # None /\ ~references_src_or_env(lhs)
        second == IF ~second_applies THEN Ok(<<>>)
                  ELSE Try(eval_expr_with_dest(lhs, dest),
                           LAMBDA v : IF v.t = "Number"
                                      THEN Ok(<<ReverseBound(op, r[1], v.v)>>)
                                      ELSE Ok(<<>>))
    IN  IF ~first_applies THEN second
        ELSE Try(eval_expr_with_dest(rhs, dest),
                 LAMBDA v : IF v.t = "Number"
                            THEN Ok(<<ForwardBound(op, l[1], v.v)>>)
                            ELSE second)

\* the In arm: the bare Src attribute is the target
CollectIn(target, check_against, dest) ==
    LET a == get_src_attr_name(target)
    IN  IF a = None THEN Ok(<<>>)
        ELSE IF references_src_or_env(check_against) THEN Ok(<<>>)
        ELSE Try(eval_expr_with_dest(check_against, dest),
                 LAMBDA set_val : IF set_val.t = "Set"
                                  THEN Ok(<<Containment(a[1], set_val.v)>>)
                                  ELSE Ok(<<>>))

\* the InSet arm: the bare Src attribute is the set
CollectInSet(value, set, dest) ==
    LET a == get_src_attr_name(set)
    IN  IF a = None THEN Ok(<<>>)
        ELSE IF references_src_or_env(value) THEN Ok(<<>>)
        ELSE Try(eval_expr_with_dest(value, dest),
                 LAMBDA v : IF v.t = "String"
                            THEN Ok(<<Containment(a[1], <<v.v>>)>>)
                            ELSE Ok(<<>>))

RECURSIVE collect_src_requirements(_, _)
RECURSIVE CollectOperands(_, _)

\* the operands' requirements put together from the last operand to the first
RECURSIVE CollectOperands_LastFirst(_, _)
CollectOperands_LastFirst(operands, dest) ==
    IF operands = <<>> THEN Ok(<<>>)
    ELSE Try(collect_src_requirements(Head(operands), dest),
             LAMBDA first :
                Try(CollectOperands_LastFirst(Tail(operands), dest),
                    LAMBDA rest : Ok(rest \o first)))

\* for c in operands { out.extend(collect_src_requirements(c, dest)?) }
CollectOperands(operands, dest) ==
    IF operands = <<>> THEN Ok(<<>>)
    ELSE Try(collect_src_requirements(Head(operands), dest),
             LAMBDA first :
                Try(CollectOperands(Tail(operands), dest),
                    LAMBDA rest : Ok(first \o rest)))

collect_src_requirements(condition, dest) ==
    CASE condition.c = "And" -> CollectOperands(condition.operands, dest)
      [] condition.c = "Or" -> CollectOperands(condition.operands, dest)
      [] condition.c = "Eq" -> CollectEq(condition.lhs, condition.rhs, dest)
      [] condition.c = "Gte" ->
            CollectCmp(condition.lhs, condition.rhs, dest, "Gte")
      [] condition.c = "Gt" ->
            CollectCmp(condition.lhs, condition.rhs, dest, "Gt")
      [] condition.c = "Lt" ->
            CollectCmp(condition.lhs, condition.rhs, dest, "Lt")
      [] condition.c = "In" ->
            CollectIn(condition.target, condition.check_against, dest)
      [] condition.c = "InSet" ->
            CollectInSet(condition.value, condition.set, dest)

(***************************************************************************)
(* rule_requirements.rs: merge_requirements                                *)
(***************************************************************************)
MergedRequirements(role, dept, ge, lt, groups) ==
    [role_allowed |-> role, dept_allowed |-> dept,
     trust_score_required_ge |-> ge, trust_score_required_lt |-> lt,
     groups_allowed |-> groups]

\* MergedRequirements::default()
MergedDefault == MergedRequirements(<<>>, <<>>, <<>>, <<>>, <<>>)

\* the push without the contains test
PushIfAbsent_Always(list, s) == Append(list, s)

\* if !list.contains(&s) { list.push(s) }
PushIfAbsent(list, s) == IF Contains(list, s) THEN list ELSE Append(list, s)

RECURSIVE PushAllIfAbsent(_, _)
PushAllIfAbsent(list, items) ==
    IF items = <<>> THEN list
    ELSE PushAllIfAbsent(PushIfAbsent(list, Head(items)), Tail(items))

\* one iteration of `for req in requirements`
MergeOne(out, req) ==
    CASE req.r = "Exact" ->
            IF req.value.t # "String" THEN out
            ELSE IF req.attr = "Src.Role"
            THEN [out EXCEPT !.role_allowed = PushIfAbsent(@, req.value.v)]
            ELSE IF req.attr = "Src.Dept"
            THEN [out EXCEPT !.dept_allowed = PushIfAbsent(@, req.value.v)]
            ELSE out
      [] req.r = "Containment" ->
            IF req.attr = "Src.Groups"
            THEN [out EXCEPT !.groups_allowed = PushAllIfAbsent(@, req.allowed_set)]
            ELSE out
      [] req.r = "Numeric" ->
            IF req.attr = "Src.TrustScore"
            THEN [out EXCEPT
                    !.trust_score_required_ge = @ \o req.required_ge,
                    !.trust_score_required_lt = @ \o req.required_lt]
            ELSE out

RECURSIVE MergeLoop(_, _)
MergeLoop(out, requirements) ==
    IF requirements = <<>> THEN out
    ELSE MergeLoop(MergeOne(out, Head(requirements)), Tail(requirements))

\* Vec::sort on i64: ascending
RECURSIVE Insert(_, _)
Insert(sorted, x) ==
    IF sorted = <<>> THEN <<x>>
    ELSE IF x <= Head(sorted) THEN <<x>> \o sorted
    ELSE <<Head(sorted)>> \o Insert(Tail(sorted), x)

RECURSIVE Sort(_)
Sort(vec) == IF vec = <<>> THEN <<>> ELSE Insert(Sort(Tail(vec)), Head(vec))

\* Vec::dedup: drops consecutive repeats
RECURSIVE Dedup(_)
Dedup(vec) ==
    IF Len(vec) <= 1 THEN vec
    ELSE IF vec[1] = vec[2] THEN Dedup(Tail(vec))
    ELSE <<vec[1]>> \o Dedup(Tail(vec))

\* sort(); dedup(); then the first element kept where the last is meant
CollapseToMax_First(list) ==
    IF list = <<>> THEN list
    ELSE LET d == Dedup(Sort(list)) IN <<d[1]>>

\* sort(); dedup(); vec![*last().unwrap()]
CollapseToMax(list) ==
    IF list = <<>> THEN list
    ELSE LET d == Dedup(Sort(list)) IN <<d[Len(d)]>>

\* the bound pushed first kept, with no sort()
CollapseToMin_Unsorted(list) ==
    IF list = <<>> THEN list
    ELSE <<list[1]>>

\* sort(); dedup(); vec![*first().unwrap()]
CollapseToMin(list) ==
    IF list = <<>> THEN list
    ELSE LET d == Dedup(Sort(list)) IN <<d[1]>>

merge_requirements(requirements) ==
    LET out == MergeLoop(MergedDefault, requirements) IN
    Ok([out EXCEPT
          !.trust_score_required_ge = CollapseToMax(@),
          !.trust_score_required_lt = CollapseToMin(@)])

(***************************************************************************)
(* u32 words.  TLC's integers stop short of 2^32, so a u32 is kept as the  *)
(* set of the positions of its one bits, 0 the lowest, and the operations  *)
(* the code uses (|, 1 << i, (b >> i) & 1, as u32) are computed on it.     *)
(***************************************************************************)
\* the width of a key slot: the `id < 32` / `i < 32` guards and (0..32).rev()
WordBits == 32

\* 2^16: u32::MAX + 1 is Half * Half
Half == 2 ^ 16

\* n as u32, for 0 <= n < 2^31 (the integers TLC has)
U32(n) == {i \in 0..(WordBits - 2) : (n \div (2 ^ i)) % 2 = 1}

\* 0u32
Zero32 == {}

\* x | y
BitOr(x, y) == x \cup y

\* 1u32 << i, for i < 32
Shl1(i) == {i}

\* (b >> i) & 1, for i < 32
BitAt(b, i) == IF i \in b THEN 1 ELSE 0

(***************************************************************************)
(* encoder.rs: AttrIdMap, encode_value, encoded_value_to_u32               *)
(***************************************************************************)
\* AttrIdEntry; value_to_id, numeric_min and numeric_max are Options
AttrIdEntry(value_type, value_to_id_map, numeric_min, numeric_max) ==
    [value_type |-> value_type, value_to_id |-> value_to_id_map,
     numeric_min |-> numeric_min, numeric_max |-> numeric_max]

\* an entry as parse_attr_entry builds it from an id -> value table
CategoryEntry(value_type, ids) == AttrIdEntry(value_type, Some(ids), None, None)

\* an entry as parse_attr_entry builds it from {min, max}
RangeEntry(value_type, min, max) ==
    AttrIdEntry(value_type, None, Some(min), Some(max))

\* AttrIdMap::value_to_id; map.entries is a partial map from attribute names
value_to_id(map, attr_name, value) ==
    IF attr_name \notin DOMAIN map.entries
    THEN Err("Unknown attribute: " \o attr_name)
    ELSE LET entry == map.entries[attr_name] IN
         IF entry.value_to_id = None
         THEN Err("Attribute " \o attr_name \o " has no value->id map")
         ELSE IF value \notin DOMAIN entry.value_to_id[1]
         THEN Err("Value '" \o value \o "' not found in attribute " \o attr_name)
         ELSE Ok(entry.value_to_id[1][value])

SingleId(id) == [enc |-> "SingleId", id |-> id]
MultipleIds(ids) == [enc |-> "MultipleIds", ids |-> ids]
NumericEnc(n) == [enc |-> "Numeric", n |-> n]

\* vec.iter().map(|s| map.value_to_id(attr_name, s)).collect()
RECURSIVE CollectIds(_, _, _)
CollectIds(map, attr_name, vec) ==
    IF vec = <<>> THEN Ok(<<>>)
    ELSE Try(value_to_id(map, attr_name, Head(vec)),
             LAMBDA id :
                Try(CollectIds(map, attr_name, Tail(vec)),
                    LAMBDA rest : Ok(<<id>> \o rest)))

encode_value(map, attr_name, v) ==
    IF attr_name \notin DOMAIN map.entries
    THEN Err("Unknown attribute: " \o attr_name)
    ELSE LET entry == map.entries[attr_name] IN
         CASE entry.value_type = "Single" /\ v.t = "String" ->
                Try(value_to_id(map, attr_name, v.v),
                    LAMBDA id : Ok(SingleId(id)))
           [] entry.value_type = "Numeric" /\ v.t = "Number" ->
                LET below == entry.numeric_min # None /\ v.v < entry.numeric_min[1]
                    above == entry.numeric_max # None /\ v.v > entry.numeric_max[1]
                IN  IF below \/ above
                    THEN Err("Numeric value out of range")
                    ELSE Ok(NumericEnc(v.v))
           [] entry.value_type = "Multiple" /\ v.t = "Set" ->
                Try(CollectIds(map, attr_name, v.v),
                    LAMBDA ids : Ok(MultipleIds(ids)))
           [] OTHER -> Err("Type mismatch: attribute " \o attr_name)

\* the loop with an id >= 32 skipped where the code returns the error
RECURSIVE IdsToBits_Skip(_, _)
IdsToBits_Skip(ids, bits) ==
    IF ids = <<>> THEN Ok(bits)
    ELSE IF Head(ids) >= WordBits
    THEN IdsToBits_Skip(Tail(ids), bits)
    ELSE IdsToBits_Skip(Tail(ids), BitOr(bits, Shl1(Head(ids))))

\* for &id in ids { if id >= 32 { return Err } bits |= 1u32 << id } Ok(bits)
RECURSIVE IdsToBits(_, _)
IdsToBits(ids, bits) ==
    IF ids = <<>> THEN Ok(bits)
    ELSE IF Head(ids) >= WordBits
    THEN Err("Multiple id does not fit in 32 bits")
    ELSE IdsToBits(Tail(ids), BitOr(bits, Shl1(Head(ids))))

encoded_value_to_u32(entry, v) ==
    CASE entry.value_type = "Single" /\ v.enc = "SingleId" -> Ok(U32(v.id))
      [] entry.value_type = "Numeric" /\ v.enc = "Numeric" ->
            IF v.n < 0 \/ v.n \div Half >= Half
            THEN Err("Numeric value out of u32 range")
            ELSE Ok(U32(v.n))
      [] entry.value_type = "Multiple" /\ v.enc = "MultipleIds" ->
            IdsToBits(v.ids, Zero32)
      [] OTHER -> Err("Type mismatch in encoded_value_to_u32")

\* (0..32).rev().map(|i| if (b >> i) & 1 == 1 { '1' } else { '0' }).collect():
\* the characters for i = n-1 down to 0
RECURSIVE BitChars(_, _)
BitChars(b, n) ==
    IF n = 0 THEN ""
    ELSE (IF BitAt(b, n - 1) = 1 THEN "1" ELSE "0") \o BitChars(b, n - 1)

\* the characters for i = 0 up to 31: least-significant bit first
RECURSIVE BitCharsLsbFirst(_, _)
BitCharsLsbFirst(b, i) ==
    IF i = WordBits THEN ""
    ELSE (IF BitAt(b, i) = 1 THEN "1" ELSE "0") \o BitCharsLsbFirst(b, i + 1)

u32_to_bit_string_LsbFirst(b) == BitCharsLsbFirst(b, 0)

u32_to_bit_string(b) == BitChars(b, WordBits)

(***************************************************************************)
(* encoder.rs: threshold ladders.  thresholds.iter().enumerate() counts    *)
(* from 0; thresholds[i + 1] here is the code's thresholds[i].             *)
(***************************************************************************)
\* the loop of numeric_to_threshold_bits testing with < in place of <=
RECURSIVE LadderLe_Strict(_, _, _, _)
LadderLe_Strict(value, thresholds, i, bits) ==
    IF i >= Len(thresholds) THEN bits
    ELSE LadderLe_Strict(value, thresholds, i + 1,
                         IF i < WordBits /\ value < thresholds[i + 1]
                         THEN BitOr(bits, Shl1(i)) ELSE bits)

\* the loop of numeric_to_threshold_bits, from index i on:
\* if i < 32 && value <= t { bits |= 1u32 << i }
RECURSIVE LadderLe(_, _, _, _)
LadderLe(value, thresholds, i, bits) ==
    IF i >= Len(thresholds) THEN bits
    ELSE LadderLe(value, thresholds, i + 1,
                  IF i < WordBits /\ value <= thresholds[i + 1]
                  THEN BitOr(bits, Shl1(i)) ELSE bits)

numeric_to_threshold_bits(value, thresholds) ==
    LadderLe(value, thresholds, 0, Zero32)

\* the loop of requirement_ge_to_threshold_bits, from index i on:
\* if i < 32 && threshold <= t { bits |= 1u32 << i }
RECURSIVE LadderGe(_, _, _, _)
LadderGe(threshold, thresholds, i, bits) ==
    IF i >= Len(thresholds) THEN bits
    ELSE LadderGe(threshold, thresholds, i + 1,
                  IF i < WordBits /\ threshold <= thresholds[i + 1]
                  THEN BitOr(bits, Shl1(i)) ELSE bits)

requirement_ge_to_threshold_bits(threshold, thresholds) ==
    LadderGe(threshold, thresholds, 0, Zero32)

\* the loop without its break: the bit of every equal threshold
RECURSIVE LadderEq_All(_, _, _)
LadderEq_All(threshold, thresholds, i) ==
    IF i >= Len(thresholds) THEN Zero32
    ELSE BitOr(IF i < WordBits /\ thresholds[i + 1] = threshold
               THEN Shl1(i) ELSE Zero32,
               LadderEq_All(threshold, thresholds, i + 1))

\* the loop of requirement_lt_to_threshold_bits: stops at the first hit
RECURSIVE LadderEq(_, _, _)
LadderEq(threshold, thresholds, i) ==
    IF i >= Len(thresholds) THEN Zero32
    ELSE IF i < WordBits /\ thresholds[i + 1] = threshold THEN Shl1(i)
    ELSE LadderEq(threshold, thresholds, i + 1)

requirement_lt_to_threshold_bits(threshold, thresholds) ==
    LadderEq(threshold, thresholds, 0)

(***************************************************************************)
(* encoder.rs: merged_requirements_to_key_bits_per_attr                    *)
(***************************************************************************)
KeySemantics(use_trust_score_threshold) ==
    [use_trust_score_threshold |-> use_trust_score_threshold]

\* HashMap::insert
MapInsert(m, k, v) == (k :> v) @@ m

\* for s in allowed { if let Ok(id) = map.value_to_id(name, s)
\*                      { if id < 32 { mask |= 1u32 << id } } }
RECURSIVE MaskOfKnown(_, _, _, _)
MaskOfKnown(map, name, allowed, mask) ==
    IF allowed = <<>> THEN mask
    ELSE LET id == value_to_id(map, name, Head(allowed)) IN
         MaskOfKnown(map, name, Tail(allowed),
                     IF id.ok /\ id.val < WordBits
                     THEN BitOr(mask, Shl1(id.val)) ELSE mask)

\* the single allowed value written as the bit of its id, not as the id
SingleSlotPerAttr_OneHot(map, name, allowed) ==
    IF allowed = <<>> THEN Ok(Zero32)
    ELSE IF Len(allowed) = 1
    THEN Try(value_to_id(map, name, allowed[1]), LAMBDA id : Ok(Shl1(id)))
    ELSE Ok(MaskOfKnown(map, name, allowed, Zero32))

\* the "Src.Role" and "Src.Dept" arms of the per-attribute form
SingleSlotPerAttr(map, name, allowed) ==
    IF allowed = <<>> THEN Ok(Zero32)
    ELSE IF Len(allowed) = 1
    THEN Try(value_to_id(map, name, allowed[1]), LAMBDA id : Ok(U32(id)))
    ELSE Ok(MaskOfKnown(map, name, allowed, Zero32))

\* the `match name` of the per-attribute form: the slot's word
SlotPerAttr(map, merged, name) ==
    CASE name = "Src.Role" -> SingleSlotPerAttr(map, name, merged.role_allowed)
      [] name = "Src.Dept" -> SingleSlotPerAttr(map, name, merged.dept_allowed)
      [] name = "Src.TrustScore" -> Ok(Zero32)
      [] name = "Src.Groups" ->
            Ok(MaskOfKnown(map, name, merged.groups_allowed, Zero32))
      [] OTHER -> Ok(Zero32)

\* the flag set by any slot name, not only in the "Src.TrustScore" arm
SetsThresholdFlag_AnyName(merged, name) ==
    \/ merged.trust_score_required_ge # <<>>
    \/ merged.trust_score_required_lt # <<>>

\* whether the "Src.TrustScore" arm sets use_trust_score_threshold
SetsThresholdFlag(merged, name) ==
    /\ name = "Src.TrustScore"
    /\ \/ merged.trust_score_required_ge # <<>>
       \/ merged.trust_score_required_lt # <<>>

\* for &name in source_attr_order { ...; out.insert(name, bit string) }
RECURSIVE KeyLoopPerAttr(_, _, _, _, _)
KeyLoopPerAttr(map, merged, source_attr_order, out, use) ==
    IF source_attr_order = <<>> THEN Ok(<<out, use>>)
    ELSE Try(SlotPerAttr(map, merged, Head(source_attr_order)),
             LAMBDA u :
                KeyLoopPerAttr(map, merged, Tail(source_attr_order),
                               MapInsert(out, Head(source_attr_order),
                                         u32_to_bit_string(u)),
                               use \/ SetsThresholdFlag(
                                          merged, Head(source_attr_order))))

\* for &t in &merged.trust_score_required_ge
\*     { ge_bits |= requirement_ge_to_threshold_bits(t, thresholds) }
RECURSIVE OrGeLadders(_, _, _)
OrGeLadders(list, thresholds, bits) ==
    IF list = <<>> THEN bits
    ELSE OrGeLadders(Tail(list), thresholds,
             BitOr(bits, requirement_ge_to_threshold_bits(Head(list), thresholds)))

\* for &t in &merged.trust_score_required_lt
\*     { ge_bits |= requirement_lt_to_threshold_bits(t, thresholds) }
RECURSIVE OrLtLadders(_, _, _)
OrLtLadders(list, thresholds, bits) ==
    IF list = <<>> THEN bits
    ELSE OrLtLadders(Tail(list), thresholds,
             BitOr(bits, requirement_lt_to_threshold_bits(Head(list), thresholds)))

merged_requirements_to_key_bits_per_attr(map, merged, source_attr_order, trust_score_thresholds) ==
    Try(KeyLoopPerAttr(map, merged, source_attr_order, <<>>, FALSE),
        LAMBDA loop :
            LET out == loop[1]
                use == loop[2]
                ge_bits == OrGeLadders(merged.trust_score_required_ge,
                                       trust_score_thresholds, Zero32)
                all_bits == OrLtLadders(merged.trust_score_required_lt,
                                        trust_score_thresholds, ge_bits)
            IN  Ok(<<IF use
                     THEN MapInsert(out, "Src.TrustScore.Threshold",
                                    u32_to_bit_string(all_bits))
                     ELSE out,
                     KeySemantics(use)>>))

(***************************************************************************)
(* encoder.rs: merged_requirements_to_key_bits, the concatenated form      *)
(***************************************************************************)
\* for s in allowed { let id = map.value_to_id(name, s)?;
\*                    if id < 32 { mask |= 1u32 << id } }
RECURSIVE MaskOf(_, _, _, _)
MaskOf(map, name, allowed, mask) ==
    IF allowed = <<>> THEN Ok(mask)
    ELSE Try(value_to_id(map, name, Head(allowed)),
             LAMBDA id :
                MaskOf(map, name, Tail(allowed),
                       IF id < WordBits THEN BitOr(mask, Shl1(id)) ELSE mask))

\* the "Src.Role" and "Src.Dept" arms of the concatenated form
SingleSlot(map, name, allowed) ==
    IF allowed = <<>> THEN Ok(Zero32)
    ELSE IF Len(allowed) = 1
    THEN Try(value_to_id(map, name, allowed[1]), LAMBDA id : Ok(U32(id)))
    ELSE MaskOf(map, name, allowed, Zero32)

\* the `match name` of the concatenated form: the slot's word
Slot(map, merged, name) ==
    CASE name = "Src.Role" -> SingleSlot(map, name, merged.role_allowed)
      [] name = "Src.Dept" -> SingleSlot(map, name, merged.dept_allowed)
      [] name = "Src.TrustScore" -> Ok(Zero32)
      [] name = "Src.Groups" -> MaskOf(map, name, merged.groups_allowed, Zero32)
      [] OTHER -> Ok(Zero32)

\* for &name in source_attr_order { ...; buf.push_str(&u32_to_bit_string(u)) }
RECURSIVE KeyLoop(_, _, _, _, _)
KeyLoop(map, merged, source_attr_order, buf, use) ==
    IF source_attr_order = <<>> THEN Ok(<<buf, use>>)
    ELSE Try(Slot(map, merged, Head(source_attr_order)),
             LAMBDA u :
                KeyLoop(map, merged, Tail(source_attr_order),
                        buf \o u32_to_bit_string(u),
                        use \/ SetsThresholdFlag(
                                   merged, Head(source_attr_order))))

\* let th_bits = if use_trust_score_threshold { ...; ge_bits } else { 0u32 }:
\* lt_bits is computed by the code and never used
ThresholdBits(merged, trust_score_thresholds, use) ==
    IF use
    THEN OrGeLadders(merged.trust_score_required_ge,
                     trust_score_thresholds, Zero32)
    ELSE Zero32

merged_requirements_to_key_bits(map, merged, source_attr_order, trust_score_thresholds) ==
    Try(KeyLoop(map, merged, source_attr_order, "", FALSE),
        LAMBDA loop :
            Ok(<<loop[1] \o u32_to_bit_string(
                                ThresholdBits(merged, trust_score_thresholds,
                                              loop[2])),
                 KeySemantics(loop[2])>>))

(***************************************************************************)
(* classifier.rs                                                           *)
(***************************************************************************)
\* an applicability test that keeps a rule whose evaluation failed
is_rule_applicable_KeepErrors(rule, dest_entity) ==
    IF ~references_dst(rule.condition) THEN TRUE
    ELSE evaluate_dest_only(rule.condition, dest_entity) # Ok(FALSE)

is_rule_applicable_for_dest_entity(rule, dest_entity) ==
    IF ~references_dst(rule.condition) THEN TRUE
    ELSE evaluate_dest_only(rule.condition, dest_entity) = Ok(TRUE)

\* policy.rules.iter().filter_map(...): the ids of the applicable rules
RECURSIVE ApplicableIds(_, _)
ApplicableIds(rules, dest) ==
    IF rules = <<>> THEN <<>>
    ELSE (IF is_rule_applicable_for_dest_entity(Head(rules), dest)
          THEN <<Head(rules).id>> ELSE <<>>)
         \o ApplicableIds(Tail(rules), dest)

\* the policies walked from the last to the first
RECURSIVE ApplicablePerPolicy_LastFirst(_, _)
ApplicablePerPolicy_LastFirst(policies, dest) ==
    IF policies = <<>> THEN <<>>
    ELSE ApplicablePerPolicy_LastFirst(Tail(policies), dest)
         \o ApplicableIds(Head(policies).rules, dest)

\* policies.iter().flat_map(...).collect()
RECURSIVE ApplicablePerPolicy(_, _)
ApplicablePerPolicy(policies, dest) ==
    IF policies = <<>> THEN <<>>
    ELSE ApplicableIds(Head(policies).rules, dest)
         \o ApplicablePerPolicy(Tail(policies), dest)

list_applicable_rules_per_dest_entity(policies, dest_entities) ==
    [i \in 1..Len(dest_entities) |->
        <<dest_entities[i].ip, ApplicablePerPolicy(policies, dest_entities[i])>>]

\* for rule in &policy.rules { if !applicable { continue }
\*                             all_reqs.extend(collect_src_requirements(..)?) }
RECURSIVE GatherRules(_, _)
GatherRules(rules, dest) ==
    IF rules = <<>> THEN Ok(<<>>)
    ELSE IF ~is_rule_applicable_for_dest_entity(Head(rules), dest)
    THEN GatherRules(Tail(rules), dest)
    ELSE Try(collect_src_requirements(Head(rules).condition, dest),
             LAMBDA reqs :
                Try(GatherRules(Tail(rules), dest),
                    LAMBDA rest : Ok(reqs \o rest)))

\* for policy in policies { ... }
RECURSIVE GatherPolicies(_, _)
GatherPolicies(policies, dest) ==
    IF policies = <<>> THEN Ok(<<>>)
    ELSE Try(GatherRules(Head(policies).rules, dest),
             LAMBDA first :
                Try(GatherPolicies(Tail(policies), dest),
                    LAMBDA rest : Ok(first \o rest)))

\* merge_requirements(all_reqs)? and then the per-attribute key compiler
CompileRequirements(all_reqs, attr_id_map, source_attr_order, trust_score_thresholds) ==
    Try(merge_requirements(all_reqs),
        LAMBDA merged :
            merged_requirements_to_key_bits_per_attr(
                attr_id_map, merged, source_attr_order, trust_score_thresholds))

\* the body of `for dest in dest_entities`: the tuple pushed, or the error
BuildOneDest(policies, dest, attr_id_map, source_attr_order, trust_score_thresholds) ==
    Try(GatherPolicies(policies, dest),
        LAMBDA all_reqs :
    Try(CompileRequirements(all_reqs, attr_id_map, source_attr_order,
                            trust_score_thresholds),
        LAMBDA key : Ok(<<dest.ip, key[1], key[2]>>)))

\* every destination given the key compiled for the first destination
build_dest_requirement_bits_FirstKey(policies, dest_entities, attr_id_map, source_attr_order, trust_score_thresholds) ==
    IF dest_entities = <<>> THEN Ok(<<>>)
    ELSE Try(BuildOneDest(policies, Head(dest_entities), attr_id_map,
                          source_attr_order, trust_score_thresholds),
             LAMBDA first :
                Ok([i \in 1..Len(dest_entities) |->
                       <<dest_entities[i].ip, first[2], first[3]>>]))

RECURSIVE build_dest_requirement_bits(_, _, _, _, _)
build_dest_requirement_bits(policies, dest_entities, attr_id_map, source_attr_order, trust_score_thresholds) ==
    IF dest_entities = <<>> THEN Ok(<<>>)
    ELSE Try(BuildOneDest(policies, Head(dest_entities), attr_id_map,
                          source_attr_order, trust_score_thresholds),
             LAMBDA first :
                Try(build_dest_requirement_bits(
                        policies, Tail(dest_entities), attr_id_map,
                        source_attr_order, trust_score_thresholds),
                    LAMBDA rest : Ok(<<first>> \o rest)))

(***************************************************************************)
(* main.rs: evaluate_policy                                                *)
(***************************************************************************)
RECURSIVE PolicyLoop(_, _, _, _, _)
PolicyLoop(rules, default_effect, source, destination, env) ==
    IF rules = <<>> THEN Ok(default_effect)
    ELSE LET m == matches(Head(rules), source, destination, env) IN
         IF ~m.ok
         THEN Err("Error evaluating rule '" \o Head(rules).id \o "': " \o m.err)
         ELSE IF m.val THEN Ok(Head(rules).effect)
         ELSE PolicyLoop(Tail(rules), default_effect, source, destination, env)

\* a list read from its end
Reverse(vec) == [i \in 1..Len(vec) |-> vec[Len(vec) + 1 - i]]

\* a walk from the last rule to the first: last match wins
evaluate_policy_LastMatch(policy, source, destination, env) ==
    PolicyLoop(Reverse(policy.rules), policy.default_effect,
               source, destination, env)

evaluate_policy(policy, source, destination, env) ==
    PolicyLoop(policy.rules, policy.default_effect, source, destination, env)

(***************************************************************************)
(* The inputs the caller draws from.                                       *)
(***************************************************************************)
\* sequences over S of length lo..hi
SeqsOf(S, lo, hi) == UNION {[1..n -> S] : n \in lo..hi}

Nums == 0..MaxNum

Sources ==
    { Entity("10.0.0.1", ("Role" :> StringValue("student"))
                         @@ ("TrustScore" :> NumberValue(0))),
      Entity("10.0.0.2", ("Role" :> StringValue("faculty"))
                         @@ ("TrustScore" :> NumberValue(MaxNum))),
      Entity("10.0.0.3", <<>>) }

Dests ==
    { Entity("10.1.0.1", ("Type" :> StringValue("db"))
                         @@ ("Sensitivity" :> NumberValue(MaxNum))
                         @@ ("AllowedVLANs" :> SetValue(<<"student", "db">>))),
      Entity("10.1.0.2", ("Type" :> StringValue("web"))
                         @@ ("Sensitivity" :> NumberValue(0))
                         @@ ("AllowedVLANs" :> SetValue(<<>>))),
      Entity("10.1.0.3", <<>>) }

Envs == { empty_env, ("Env.Time" :> NumberValue(1)) }

\* expressions without operands
Atoms ==
    {LiteralString(x) : x \in {"student", "db", "1"}}
    \cup {LiteralNumber(n) : n \in Nums}
    \cup {AttributeRef(a) : a \in {"Src.Role", "Src.TrustScore", "Dst.Type",
                                   "Dst.Sensitivity", "Dst.AllowedVLANs"}}
    \cup {EnvRef("Env.Time")}

\* sums and products of up to MaxOperands operands
ArithOperands ==
    {LiteralNumber(MaxNum), AttributeRef("Dst.Sensitivity"), EnvRef("Env.Time")}

Ariths ==
    {Add(o) : o \in SeqsOf(ArithOperands, 0, MaxOperands)}
    \cup {Multiply(o) : o \in SeqsOf(ArithOperands, 0, MaxOperands)}

\* what an arithmetic expression is compared with
ArithPeers ==
    {LiteralNumber(1), AttributeRef("Src.TrustScore"),
     AttributeRef("Dst.Sensitivity")}

SidePairs ==
    (Atoms \X Atoms) \cup (Ariths \X ArithPeers) \cup (ArithPeers \X Ariths)

Leaves ==
    UNION { {Eq(p[1], p[2]), Gte(p[1], p[2]), Gt(p[1], p[2]), Lt(p[1], p[2]),
             In(p[1], p[2]), InSet(p[1], p[2])} : p \in SidePairs }

\* the leaves And and Or are built from
OperandLeaves ==
    {Eq(AttributeRef(a), LiteralString(x)) :
        a \in {"Dst.Type", "Src.Role"}, x \in {"student", "db"}}
    \cup {Gte(a, LiteralNumber(1)) :
            a \in {AttributeRef("Dst.Sensitivity"), AttributeRef("Src.TrustScore"),
                   EnvRef("Env.Time"), LiteralNumber(0), LiteralNumber(MaxNum)}}

Connectives(operand_lists) ==
    {And(o) : o \in operand_lists} \cup {Or(o) : o \in operand_lists}

Flat == Connectives(SeqsOf(OperandLeaves, 0, MaxOperands))

\* And/Or nested in And/Or
NestedOperands ==
    Connectives({<<Eq(AttributeRef("Dst.Type"), LiteralString("db")),
                   Eq(AttributeRef("Src.Role"), LiteralString("student"))>>,
                 <<Eq(AttributeRef("Dst.Type"), LiteralString("web")),
                   Gt(AttributeRef("Dst.Sensitivity"), LiteralNumber(MaxNum))>>})
    \cup {Eq(AttributeRef("Dst.Type"), LiteralString("db")),
          Eq(AttributeRef("Src.Role"), LiteralString("student"))}

Nested == Connectives(SeqsOf(NestedOperands, 1, MaxOperands))

Conditions == Leaves \cup Flat \cup Nested

\* operands of which one fails on a destination without attributes, one
\* fails on every destination, and the others give one requirement each
CollectOperandLeaves ==
    { Eq(AttributeRef("Src.Role"), AttributeRef("Dst.Type")),
      Gte(AttributeRef("Src.TrustScore"), EnvRef("Env.Time")),
      Lt(AttributeRef("Src.TrustScore"), LiteralNumber(MaxNum)),
      In(AttributeRef("Src.Role"), AttributeRef("Dst.AllowedVLANs")) }

\* the conditions requirements are collected from
CollectConditions ==
    Conditions \cup Connectives(SeqsOf(CollectOperandLeaves, 1, MaxOperands))

(***************************************************************************)
(* The caller.  It starts idle and makes one call.                         *)
(***************************************************************************)
Idle == [op |-> "none"]

Init == call = Idle /\ result = None

\* Condition::evaluate on a concrete (source, destination, env)
CallEvaluate ==
    /\ call = Idle
    /\ \E cond \in Conditions, source \in Sources, destination \in Dests,
          env \in Envs :
        /\ call' = [op |-> "evaluate", cond |-> cond, source |-> source,
                    destination |-> destination, env |-> env]
        /\ result' = Condition_evaluate(cond, source, destination, env)

\* Condition::evaluate_dest_only on a destination
CallEvaluateDestOnly ==
    /\ call = Idle
    /\ \E cond \in Conditions, dest_entity \in Dests :
        /\ call' = [op |-> "evaluate_dest_only", cond |-> cond,
                    dest_entity |-> dest_entity]
        /\ result' = evaluate_dest_only(cond, dest_entity)

NextEval == CallEvaluate \/ CallEvaluateDestOnly

SpecEval == Init /\ [][NextEval]_vars

(***************************************************************************)
(* Policy evaluation (SpecPolicy).                                         *)
(***************************************************************************)
Effects == {"Allow", "Deny"}

\* conditions of the rules of a policy: decided by the source, by the
\* destination, by the environment (an error without it), always true
PolicyConditions ==
    { Eq(AttributeRef("Src.Role"), LiteralString("student")),
      Gte(AttributeRef("Src.TrustScore"), LiteralNumber(1)),
      Eq(AttributeRef("Dst.Type"), LiteralString("db")),
      Gte(EnvRef("Env.Time"), LiteralNumber(1)),
      Eq(LiteralNumber(1), LiteralNumber(1)) }

\* the rules of a policy, numbered r1, r2, ... in list order
NumberedRules(bodies) ==
    [i \in 1..Len(bodies) |->
        Rule("r" \o ToString(i), bodies[i][1], bodies[i][2])]

PolicyInputs ==
    { Policy(d, NumberedRules(b)) :
        d \in Effects, b \in SeqsOf(Effects \X PolicyConditions, 0, MaxRules) }

CallEvaluatePolicy ==
    /\ call = Idle
    /\ \E policy \in PolicyInputs, source \in Sources, destination \in Dests,
          env \in Envs :
        /\ call' = [op |-> "evaluate_policy", policy |-> policy,
                    source |-> source, destination |-> destination, env |-> env]
        /\ result' = evaluate_policy(policy, source, destination, env)

NextPolicy == CallEvaluatePolicy

SpecPolicy == Init /\ [][NextPolicy]_vars

(***************************************************************************)
(* The classifier (SpecClassifier).                                        *)
(***************************************************************************)
\* the rules the policies are drawn from
RuleSet ==
    { Rule("faculty-only", "Allow",
           Eq(AttributeRef("Src.Role"), LiteralString("faculty"))),
      Rule("db-trusted", "Allow",
           And(<<Eq(AttributeRef("Dst.Type"), LiteralString("db")),
                 Gte(AttributeRef("Src.TrustScore"), LiteralNumber(1))>>)),
      Rule("sens-vs-type", "Deny",
           Gte(AttributeRef("Dst.Sensitivity"), AttributeRef("Dst.Type"))),
      Rule("web-or-student", "Allow",
           Or(<<Eq(AttributeRef("Dst.Type"), LiteralString("web")),
                Eq(AttributeRef("Src.Role"), LiteralString("student"))>>)),
      Rule("staff-group", "Allow",
           InSet(LiteralString("staff"), AttributeRef("Src.Groups"))),
      Rule("role-is-type", "Deny",
           Eq(AttributeRef("Src.Role"), AttributeRef("Dst.Type"))),
      Rule("low-trust", "Deny",
           Lt(AttributeRef("Src.TrustScore"), LiteralNumber(MaxNum))) }

\* a rule list cut into two policies at its middle
PolicyLists ==
    { <<Policy("Deny", SubSeq(rules, 1, (Len(rules) + 1) \div 2)),
        Policy("Deny", SubSeq(rules, (Len(rules) + 1) \div 2 + 1, Len(rules)))>> :
      rules \in SeqsOf(RuleSet, 0, MaxRules) }

\* destination lists without repeats
DestLists ==
    { d \in SeqsOf(Dests, 1, MaxDests) :
        \A i, j \in 1..Len(d) : i # j => d[i] # d[j] }

\* the schema of the end-to-end example: Src.Role single {0: student, 1: faculty}
SchemaBasic ==
    [entries |->
        ("Src.Role" :> CategoryEntry("Single", ("student" :> 0) @@ ("faculty" :> 1)))
        @@ ("Src.Dept" :> CategoryEntry("Single", ("cs" :> 0) @@ ("math" :> 1)))
        @@ ("Src.Groups" :> CategoryEntry("Multiple", ("staff" :> 0) @@ ("admin" :> 1)))
        @@ ("Src.TrustScore" :> RangeEntry("Numeric", 0, 100))]

\* a schema that knows no groups and places the roles elsewhere
SchemaOther ==
    [entries |->
        ("Src.Role" :> CategoryEntry("Single", ("student" :> 2) @@ ("faculty" :> 5)))
        @@ ("Src.TrustScore" :> RangeEntry("Numeric", 0, 100))]

Schemas == {SchemaBasic, SchemaOther}

AttrOrders ==
    { <<"Src.Role", "Src.Dept", "Src.TrustScore", "Src.Groups">>,
      <<"Src.Groups", "Src.Role">> }

\* the trust-score ladder 0, 1, ..., MaxNum
TrustThresholds == [i \in 1..(MaxNum + 1) |-> i - 1]

CallListApplicable ==
    /\ call = Idle
    /\ \E policies \in PolicyLists, dest_entities \in DestLists :
        /\ call' = [op |-> "list_applicable_rules_per_dest_entity",
                    policies |-> policies, dest_entities |-> dest_entities]
        /\ result' = list_applicable_rules_per_dest_entity(policies, dest_entities)

CallBuildDestRequirementBits ==
    /\ call = Idle
    /\ \E policies \in PolicyLists, dest_entities \in DestLists,
          attr_id_map \in Schemas, source_attr_order \in AttrOrders :
        /\ call' = [op |-> "build_dest_requirement_bits",
                    policies |-> policies, dest_entities |-> dest_entities,
                    attr_id_map |-> attr_id_map,
                    source_attr_order |-> source_attr_order,
                    trust_score_thresholds |-> TrustThresholds]
        /\ result' = build_dest_requirement_bits(
                         policies, dest_entities, attr_id_map,
                         source_attr_order, TrustThresholds)

NextClassifier == CallListApplicable \/ CallBuildDestRequirementBits

SpecClassifier == Init /\ [][NextClassifier]_vars

(***************************************************************************)
(* Requirement merging (SpecMerge).                                        *)
(***************************************************************************)
\* the requirements the merged lists are drawn from: lower and upper bounds
\* on Src.TrustScore, one at a time, several at once and both at once; a
\* bound on another attribute; exact and containment requirements
RequirementSet ==
    {Numeric("Src.TrustScore", <<n>>, <<>>) : n \in Nums}
    \cup {Numeric("Src.TrustScore", <<>>, <<n>>) : n \in Nums}
    \cup { Numeric("Src.TrustScore", <<1, 0>>, <<0, 1>>),
           Numeric("Src.Age", <<MaxNum + 1>>, <<-1>>),
           Exact("Src.Role", StringValue("student")),
           Exact("Src.Role", StringValue("faculty")),
           Exact("Src.Dept", StringValue("cs")),
           Containment("Src.Groups", <<"staff", "admin">>),
           Containment("Src.Groups", <<"admin", "ops">>),
           Containment("Src.Dept", <<"math">>) }

\* an Exact requirement whose value is not a string
NonStringExacts == {Exact("Src.Role", NumberValue(1))}

\* the list merged: at most one non-string Exact, then up to MaxReqs others
CallMergeRequirements ==
    /\ call = Idle
    /\ \E first \in SeqsOf(NonStringExacts, 0, 1),
          rest \in SeqsOf(RequirementSet, 0, MaxReqs) :
        /\ call' = [op |-> "merge_requirements",
                    requirements |-> first \o rest]
        /\ result' = merge_requirements(first \o rest)

NextMerge == CallMergeRequirements

SpecMerge == Init /\ [][NextMerge]_vars

(***************************************************************************)
(* The encoder (SpecEncode).                                               *)
(***************************************************************************)
\* the ladder of the worked example
ExampleThresholds == <<0, 50, 80>>

\* a ladder with more steps than a word has bits
LongLadder == [i \in 1..(WordBits + 1) |-> i - 1]

\* ladders in any order, the example's, and the long one
Ladders ==
    SeqsOf(Nums, 0, MaxLadder) \cup {ExampleThresholds, LongLadder}

LadderValues == (-1..(MaxNum + 1)) \cup {60, WordBits - 1, WordBits}

\* a schema with ids at both ends of a word, beyond it, and a single id
\* that needs the upper half of the word
SchemaWide ==
    [entries |->
        ("Src.Role" :> CategoryEntry("Single",
                           ("student" :> 0) @@ ("faculty" :> 1)
                           @@ ("guest" :> Half + 5)))
        @@ ("Src.Groups" :> CategoryEntry("Multiple",
                           ("staff" :> 0) @@ ("admin" :> 15) @@ ("ops" :> 16)
                           @@ ("root" :> WordBits - 1) @@ ("ext" :> WordBits)))
        @@ ("Src.TrustScore" :> RangeEntry("Numeric", 0, Half * 3))]

EncodeSchemas == {SchemaBasic, SchemaWide}

EncodeAttrs == {"Src.Role", "Src.Groups", "Src.TrustScore", "Src.Dept", "Src.Age"}

GroupNames == {"staff", "admin", "ops", "root", "ext", "nobody"}

\* the values encoded, variant by variant
ValueKinds == {"String", "Number", "Set", "Boolean"}

EncodeValues(kind) ==
    CASE kind = "String" ->
            {StringValue(x) : x \in {"student", "faculty", "guest", "nobody"}}
      [] kind = "Number" ->
            {NumberValue(n) : n \in Nums \cup {-1, Half * 2 + 7, Half * 3 + 1}}
      [] kind = "Set" -> {SetValue(g) : g \in SeqsOf(GroupNames, 0, MaxIds)}
      [] kind = "Boolean" -> {BooleanValue(TRUE)}

\* ids at the ends of a word and past it
IdPool == {0, 1, WordBits - 1, WordBits, WordBits + 1}

EncodedValues ==
    {MultipleIds(ids) : ids \in SeqsOf(IdPool, 0, MaxIds)}
    \cup {SingleId(id) : id \in IdPool}
    \cup {NumericEnc(n) : n \in {-1, 0, Half * 2}}

EncodeEntries ==
    { CategoryEntry("Multiple", ("staff" :> 0)),
      CategoryEntry("Single", ("student" :> 0)),
      RangeEntry("Numeric", 0, MaxNum) }

CallNumericToThresholdBits ==
    /\ call = Idle
    /\ \E value \in LadderValues, thresholds \in Ladders :
        /\ call' = [op |-> "numeric_to_threshold_bits", value |-> value,
                    thresholds |-> thresholds]
        /\ result' = numeric_to_threshold_bits(value, thresholds)

CallRequirementLtToThresholdBits ==
    /\ call = Idle
    /\ \E threshold \in LadderValues, thresholds \in Ladders :
        /\ call' = [op |-> "requirement_lt_to_threshold_bits",
                    threshold |-> threshold, thresholds |-> thresholds]
        /\ result' = requirement_lt_to_threshold_bits(threshold, thresholds)

CallEncodedValueToU32 ==
    /\ call = Idle
    /\ \E entry \in EncodeEntries, v \in EncodedValues :
        /\ call' = [op |-> "encoded_value_to_u32", entry |-> entry, v |-> v]
        /\ result' = encoded_value_to_u32(entry, v)

\* encode_value, then encoded_value_to_u32 on the attribute's entry, then
\* u32_to_bit_string: the word and its bit string, or the first error
CallEncodeToBitString ==
    /\ call = Idle
    /\ \E map \in EncodeSchemas, attr_name \in EncodeAttrs, kind \in ValueKinds :
       \E v \in EncodeValues(kind) :
        /\ call' = [op |-> "u32_to_bit_string", map |-> map,
                    attr_name |-> attr_name, v |-> v]
        /\ result' =
            Try(encode_value(map, attr_name, v),
                LAMBDA encoded :
            Try(encoded_value_to_u32(map.entries[attr_name], encoded),
                LAMBDA u : Ok([word |-> u, bits |-> u32_to_bit_string(u)])))

NextEncode ==
    \/ CallNumericToThresholdBits
    \/ CallRequirementLtToThresholdBits
    \/ CallEncodedValueToU32
    \/ CallEncodeToBitString

SpecEncode == Init /\ [][NextEncode]_vars

(***************************************************************************)
(* The key compiler on merged requirements (SpecKey).                      *)
(***************************************************************************)
\* a bound list as merge_requirements leaves it: empty, or the one bound kept
BoundLists == {<<>>} \cup {<<n>> : n \in Nums}

\* allowed roles: none, one (of id 0 and of id 1 in SchemaBasic), two, and
\* two with one the schemas do not know
RoleLists ==
    {<<>>, <<"student">>, <<"faculty">>, <<"student", "faculty">>,
     <<"student", "ghost">>}

\* allowed departments: none, and the one with id 0 in SchemaBasic
DeptLists == {<<>>, <<"cs">>}

\* allowed groups: none, one, and two of which one has an id of 32 in
\* SchemaWide
GroupLists == {<<>>, <<"staff">>, <<"staff", "ext">>}

MergedInputs ==
    { MergedRequirements(role, dept, ge, lt, groups) :
        role \in RoleLists, dept \in DeptLists,
        ge \in BoundLists, lt \in BoundLists,
        groups \in GroupLists }

\* the schemas of the classifier and the one with ids beyond a word
KeySchemas == Schemas \cup {SchemaWide}

\* attribute orders with and without a "Src.TrustScore" slot
KeyOrders == AttrOrders \cup {<<"Src.TrustScore">>}

\* the ladder 0, 1, ..., MaxNum and one that skips the values in between
KeyThresholds == {TrustThresholds, <<0, MaxNum>>}

CallMergedRequirementsToKeyBits ==
    /\ call = Idle
    /\ \E map \in KeySchemas, merged \in MergedInputs,
          source_attr_order \in KeyOrders,
          trust_score_thresholds \in KeyThresholds :
        /\ call' = [op |-> "merged_requirements_to_key_bits",
                    map |-> map, merged |-> merged,
                    source_attr_order |-> source_attr_order,
                    trust_score_thresholds |-> trust_score_thresholds]
        /\ result' = merged_requirements_to_key_bits(
                          map, merged, source_attr_order, trust_score_thresholds)

CallMergedRequirementsToKeyBitsPerAttr ==
    /\ call = Idle
    /\ \E map \in KeySchemas, merged \in MergedInputs,
          source_attr_order \in KeyOrders,
          trust_score_thresholds \in KeyThresholds :
        /\ call' = [op |-> "merged_requirements_to_key_bits_per_attr",
                    map |-> map, merged |-> merged,
                    source_attr_order |-> source_attr_order,
                    trust_score_thresholds |-> trust_score_thresholds]
        /\ result' = merged_requirements_to_key_bits_per_attr(
                          map, merged, source_attr_order, trust_score_thresholds)

NextKey ==
    \/ CallMergedRequirementsToKeyBits
    \/ CallMergedRequirementsToKeyBitsPerAttr

SpecKey == Init /\ [][NextKey]_vars

(***************************************************************************)
(* Requirement extraction (SpecCollect).                                   *)
(***************************************************************************)
CallCollectSrcRequirements ==
    /\ call = Idle
    /\ \E condition \in CollectConditions, dest \in Dests :
        /\ call' = [op |-> "collect_src_requirements",
                    condition |-> condition, dest |-> dest]
        /\ result' = collect_src_requirements(condition, dest)

NextCollect == CallCollectSrcRequirements

SpecCollect == Init /\ [][NextCollect]_vars

(***************************************************************************)
(* Claims about the evaluator and the applicability filter (SpecEval).     *)
(***************************************************************************)
\* C1: evaluate_dest_only never gives a false negative: whenever some source
\* and environment make Condition::evaluate(C, S, D, env) return Ok(true),
\* evaluate_dest_only(C, D) returns Ok(true).
C1_NoFalseNegative ==
    call.op = "evaluate_dest_only" =>
        ((\E source \in Sources, env \in Envs :
             Condition_evaluate(call.cond, source, call.dest_entity, env) = Ok(TRUE))
         => result = Ok(TRUE))

\* C6: Eq is exact and non-coercive: when both sides evaluate, Eq returns
\* Ok(true) iff the two values have the same variant and the same payload,
\* and Ok(false) for operands of different variants.
C6_EqExact ==
    (call.op = "evaluate" /\ call.cond.c = "Eq") =>
        LET l == Expression_evaluate(call.cond.lhs, call.source,
                                     call.destination, call.env)
            r == Expression_evaluate(call.cond.rhs, call.source,
                                     call.destination, call.env)
        IN  (l.ok /\ r.ok) =>
                /\ result.ok
                /\ result.val = (IF l.val.t = r.val.t
                                 THEN l.val.v = r.val.v ELSE FALSE)

\* Eq(Number(1), String("1")) was evaluated and gave Ok(false)
C6_Witness ==
    /\ call.op = "evaluate"
    /\ call.cond = Eq(LiteralNumber(1), LiteralString("1"))
    /\ result = Ok(FALSE)

(***************************************************************************)
(* Claims about policy evaluation (SpecPolicy).                            *)
(***************************************************************************)
\* what a first-match walk of `rules` gives on the call's triple: the effect
\* of the lowest-index rule that is true when every rule before it is false,
\* the default when all rules are false, the error of the lowest-index
\* failing rule when every rule before it is false
C2_Expected(rules, default_effect, res) ==
    LET m(i) == Condition_evaluate(rules[i].condition, call.source,
                                   call.destination, call.env)
        falseBefore(i) == \A j \in 1..(i - 1) : m(j) = Ok(FALSE)
    IN  /\ \A i \in 1..Len(rules) :
              /\ (m(i) = Ok(TRUE) /\ falseBefore(i)) => res = Ok(rules[i].effect)
              /\ (~m(i).ok /\ falseBefore(i)) => ~res.ok
        /\ falseBefore(Len(rules) + 1) => res = Ok(default_effect)

\* the reorderings of a rule list
C2_Reorderings(rules) ==
    { [i \in 1..Len(rules) |-> rules[p[i]]] :
        p \in { q \in [1..Len(rules) -> 1..Len(rules)] :
                  \A a, b \in 1..Len(rules) : a # b => q[a] # q[b] } }

\* C2: policy evaluation is strictly first-match: the result is the effect of
\* the lowest-index rule whose condition is true, the default effect when no
\* rule's condition is true (an evaluation error met before a match ends the
\* walk with an error), and after any reordering of the rules the result is
\* the effect of the new first matching rule.
C2_FirstMatch ==
    call.op = "evaluate_policy" =>
        /\ C2_Expected(call.policy.rules, call.policy.default_effect, result)
        /\ \A rules \in C2_Reorderings(call.policy.rules) :
              C2_Expected(rules, call.policy.default_effect,
                          evaluate_policy(
                              Policy(call.policy.default_effect, rules),
                              call.source, call.destination, call.env))

\* two rules with different effects both match; the first one's effect is
\* returned, and it is neither the second's nor the default
C2_Witness ==
    /\ call.op = "evaluate_policy"
    /\ Len(call.policy.rules) = 2
    /\ \A i \in 1..2 :
          matches(call.policy.rules[i], call.source, call.destination,
                  call.env) = Ok(TRUE)
    /\ call.policy.rules[1].effect = "Allow"
    /\ call.policy.rules[2].effect = "Deny"
    /\ call.policy.default_effect = "Deny"
    /\ result = Ok("Allow")

(***************************************************************************)
(* Claims about the classifier (SpecClassifier).                           *)
(***************************************************************************)
\* the rules of all policies, in policy order then rule order
RECURSIVE FlatRules(_)
FlatRules(policies) ==
    IF policies = <<>> THEN <<>>
    ELSE Head(policies).rules \o FlatRules(Tail(policies))

\* the applicability test as the specification words it
StatedApplicable(rule, dest) ==
    \/ ~references_dst(rule.condition)
    \/ evaluate_dest_only(rule.condition, dest) = Ok(TRUE)

\* the destinations of the call for which faculty-only is the only
\* applicable rule
OnlyFacultyApplies(i) ==
    LET applicable == SelectSeq(FlatRules(call.policies),
                                LAMBDA r : StatedApplicable(r, call.dest_entities[i]))
    IN  /\ applicable # <<>>
        /\ \A k \in 1..Len(applicable) : applicable[k].id = "faculty-only"

\* a call of build_dest_requirement_bits with the example's schema and an
\* attribute order that has a "Src.Role" slot
C3_Case ==
    /\ call.op = "build_dest_requirement_bits"
    /\ call.attr_id_map = SchemaBasic
    /\ Contains(call.source_attr_order, "Src.Role")

\* C3 as amended: with Src.Role single-valued {0: student, 1: faculty} and
\* EQ(Src.Role, "faculty") the only applicable rule for a destination,
\* build_dest_requirement_bits returns for it a "Src.Role" bit string equal
\* to u32_to_bit_string(1): the id 1 itself, 31 zeros and a one.
C3_SingleRoleIsRawId ==
    C3_Case =>
        /\ (\A i \in 1..Len(call.dest_entities) : OnlyFacultyApplies(i))
              => result.ok
        /\ result.ok =>
              \A i \in 1..Len(call.dest_entities) :
                  OnlyFacultyApplies(i) =>
                      /\ result.val[i][1] = call.dest_entities[i].ip
                      /\ result.val[i][2]["Src.Role"]
                            = "00000000000000000000000000000001"

\* a destination with faculty-only as its only applicable rule got a key
C3_Witness ==
    /\ C3_Case
    /\ result.ok
    /\ \E i \in 1..Len(call.dest_entities) : OnlyFacultyApplies(i)

\* C3 as stated: the "Src.Role" bit string equals u32_to_bit_string(1 << 1),
\* the one-hot mask of id 1.
C3_SingleRoleIsOneHot ==
    (C3_Case /\ result.ok) =>
        \A i \in 1..Len(call.dest_entities) :
            OnlyFacultyApplies(i) =>
                result.val[i][2]["Src.Role"] = u32_to_bit_string(Shl1(1))

\* the requirements of all of `rules`, none left out
RECURSIVE CollectAll(_, _)
CollectAll(rules, dest) ==
    IF rules = <<>> THEN Ok(<<>>)
    ELSE Try(collect_src_requirements(Head(rules).condition, dest),
             LAMBDA reqs :
                Try(CollectAll(Tail(rules), dest),
                    LAMBDA rest : Ok(reqs \o rest)))

\* the ids list_applicable_rules_per_dest_entity gives for one destination
ListedIds(dest) ==
    list_applicable_rules_per_dest_entity(call.policies, <<dest>>)[1][2]

\* the key compiled from the requirements of exactly the listed rules
KeyOfListed(dest) ==
    Try(CollectAll(SelectSeq(FlatRules(call.policies),
                             LAMBDA r : Contains(ListedIds(dest), r.id)),
                   dest),
        LAMBDA reqs :
    Try(merge_requirements(reqs),
        LAMBDA merged :
    Try(merged_requirements_to_key_bits_per_attr(
            call.attr_id_map, merged, call.source_attr_order,
            call.trust_score_thresholds),
        LAMBDA key : Ok(<<dest.ip, key[1], key[2]>>))))

\* C4: a rule's id is in the list returned for destination D iff the rule's
\* condition references no Dst attribute or evaluate_dest_only(condition, D)
\* is Ok(true); build_dest_requirement_bits collects the requirements of
\* exactly the listed rules for D.
C4_ApplicableIff ==
    /\ call.op = "list_applicable_rules_per_dest_entity" =>
          /\ Len(result) = Len(call.dest_entities)
          /\ \A i \in 1..Len(call.dest_entities) :
                LET kept == SelectSeq(FlatRules(call.policies),
                                LAMBDA r : StatedApplicable(r, call.dest_entities[i]))
                IN  result[i] = <<call.dest_entities[i].ip,
                                  [k \in 1..Len(kept) |-> kept[k].id]>>
    /\ call.op = "build_dest_requirement_bits" =>
          /\ \A i \in 1..Len(call.dest_entities) :
                \A id \in {r.id : r \in RuleSet} :
                    Contains(ListedIds(call.dest_entities[i]), id)
                    <=> \E k \in 1..Len(FlatRules(call.policies)) :
                           /\ FlatRules(call.policies)[k].id = id
                           /\ StatedApplicable(FlatRules(call.policies)[k],
                                               call.dest_entities[i])
          /\ result.ok =>
                /\ Len(result.val) = Len(call.dest_entities)
                /\ \A i \in 1..Len(call.dest_entities) :
                      Ok(result.val[i]) = KeyOfListed(call.dest_entities[i])
          /\ ~result.ok =>
                \E i \in 1..Len(call.dest_entities) :
                    /\ result = KeyOfListed(call.dest_entities[i])
                    /\ \A j \in 1..(i - 1) : KeyOfListed(call.dest_entities[j]).ok

\* a key was built for a destination from a policy holding a rule that is
\* left out (db-trusted on a destination that is not a db) and one that is
\* kept (low-trust), and the kept rule's bound shows in the key
C4_Witness ==
    /\ call.op = "build_dest_requirement_bits"
    /\ result.ok
    /\ \E i \in 1..Len(call.dest_entities) :
          /\ call.dest_entities[i].ip = "10.1.0.2"
          /\ ListedIds(call.dest_entities[i]) = <<"low-trust">>
          /\ \E k \in 1..Len(FlatRules(call.policies)) :
                FlatRules(call.policies)[k].id = "db-trusted"
          /\ result.val[i][3] = KeySemantics(TRUE)

\* C5: whenever evaluate_dest_only returns an error for some rule and
\* destination of the call, build_dest_requirement_bits returns that error
\* instead of treating the rule as not applicable and going on.
C5_DestOnlyErrorReturned ==
    call.op = "build_dest_requirement_bits" =>
        LET failing ==
              { evaluate_dest_only(r.condition, call.dest_entities[i]) :
                  r \in { FlatRules(call.policies)[k] :
                            k \in 1..Len(FlatRules(call.policies)) },
                  i \in 1..Len(call.dest_entities) }
        IN  \A e \in failing :
                (~e.ok) => (~result.ok /\ result \in failing)

(***************************************************************************)
(* Claims about requirement merging (SpecMerge).                           *)
(***************************************************************************)
\* the values the Numeric requirements on Src.TrustScore carry in the
\* field picked by `ge`
TrustValues(requirements, ge) ==
    UNION { LET req == requirements[i]
                list == IF ge THEN req.required_ge ELSE req.required_lt
            IN  {list[k] : k \in 1..Len(list)} :
            i \in { j \in 1..Len(requirements) :
                      /\ requirements[j].r = "Numeric"
                      /\ requirements[j].attr = "Src.TrustScore" } }

Maximum(S) == CHOOSE x \in S : \A y \in S : y <= x

Minimum(S) == CHOOSE x \in S : \A y \in S : x <= y

\* C7: after merge_requirements, trust_score_required_ge holds the maximum
\* of the required_ge values of the Numeric requirements on Src.TrustScore
\* and nothing else, trust_score_required_lt holds the minimum of their
\* required_lt values and nothing else, and a list with no contributing
\* value is empty.
C7_MostRestrictive ==
    call.op = "merge_requirements" =>
        LET ges == TrustValues(call.requirements, TRUE)
            lts == TrustValues(call.requirements, FALSE)
        IN  /\ result.ok
            /\ Len(result.val.trust_score_required_ge) <= 1
            /\ Len(result.val.trust_score_required_lt) <= 1
            /\ result.val.trust_score_required_ge
                  = (IF ges = {} THEN <<>> ELSE <<Maximum(ges)>>)
            /\ result.val.trust_score_required_lt
                  = (IF lts = {} THEN <<>> ELSE <<Minimum(lts)>>)

\* lower bounds and upper bounds that differ were merged, out of order
C7_Witness ==
    /\ call.op = "merge_requirements"
    /\ Len(call.requirements) >= 2
    /\ call.requirements[1] = Numeric("Src.TrustScore", <<MaxNum>>, <<>>)
    /\ call.requirements[2] = Numeric("Src.TrustScore", <<1, 0>>, <<0, 1>>)
    /\ result.val.trust_score_required_ge = <<MaxNum>>
    /\ result.val.trust_score_required_lt = <<0>>

(***************************************************************************)
(* Claims about the encoder (SpecEncode).                                  *)
(***************************************************************************)
\* the indices of the bits set in a word
BitsSet(b) == {i \in 0..(WordBits - 1) : BitAt(b, i) = 1}

\* the bits of a word are among 0..31
IsWord(b) == b \subseteq 0..(WordBits - 1)

Ascending(thresholds) ==
    \A i, j \in 1..Len(thresholds) : i <= j => thresholds[i] <= thresholds[j]

\* C8: numeric_to_threshold_bits(value, thresholds) sets bit i (i < 32) iff
\* value <= thresholds[i]; for an ascending ladder the set bits are upward
\* closed within the ladder; for v1 <= v2 every bit set for v2 is set for
\* v1; for thresholds [0, 50, 80] and value 60 the result is 0b100.
C8_LadderMonotonic ==
    call.op = "numeric_to_threshold_bits" =>
        /\ IsWord(result)
        /\ BitsSet(result)
              = { i \in 0..(WordBits - 1) :
                    /\ i < Len(call.thresholds)
                    /\ call.value <= call.thresholds[i + 1] }
        /\ Ascending(call.thresholds) =>
              \A i \in BitsSet(result) :
                  \A j \in (i + 1)..(WordBits - 1) :
                      j < Len(call.thresholds) => j \in BitsSet(result)
        /\ \A v1 \in LadderValues :
              v1 <= call.value =>
                  BitsSet(result)
                    \subseteq BitsSet(numeric_to_threshold_bits(v1, call.thresholds))
        /\ (call.value = 60 /\ call.thresholds = ExampleThresholds)
              => result = {2}

\* the example was computed: 60 on [0, 50, 80] gave bit 2 alone
C8_Witness ==
    /\ call.op = "numeric_to_threshold_bits"
    /\ call.value = 60
    /\ call.thresholds = ExampleThresholds
    /\ BitsSet(result) = {2}

\* a string of '0' and '1' read as a binary number, first character highest
RECURSIVE ParseBinary(_)
ParseBinary(str) ==
    IF str = "" THEN 0
    ELSE 2 * ParseBinary(SubSeq(str, 1, Len(str) - 1))
         + (IF SubSeq(str, Len(str), Len(str)) = "1" THEN 1 ELSE 0)

\* the number whose one bits are at the positions in S
RECURSIVE PlaceSum(_)
PlaceSum(S) ==
    IF S = {} THEN 0
    ELSE LET i == CHOOSE x \in S : TRUE IN 2 ^ i + PlaceSum(S \ {i})

\* C9: for every (schema, attr, value) for which encode_value and
\* encoded_value_to_u32 both succeed, u32_to_bit_string of the word is
\* exactly 32 characters of '0'/'1', most-significant bit first, and parsed
\* back as a binary number it is the same 32-bit word.
C9_BitStringRoundTrip ==
    (call.op = "u32_to_bit_string" /\ result.ok) =>
        LET bits == result.val.bits IN
        /\ IsWord(result.val.word)
        /\ Len(bits) = WordBits
        /\ \A i \in 1..Len(bits) : SubSeq(bits, i, i) \in {"0", "1"}
        /\ ParseBinary(SubSeq(bits, 1, WordBits \div 2))
              = PlaceSum({i - WordBits \div 2 :
                            i \in result.val.word \ (0..(WordBits \div 2 - 1))})
        /\ ParseBinary(SubSeq(bits, WordBits \div 2 + 1, WordBits))
              = PlaceSum(result.val.word \cap (0..(WordBits \div 2 - 1)))

\* a word with bits in both halves, not a palindrome, made the round trip
C9_Witness ==
    /\ call.op = "u32_to_bit_string"
    /\ call.attr_name = "Src.Role"
    /\ call.v = StringValue("guest")
    /\ result.ok
    /\ result.val.word = {0, 2, 16}

\* C10: encoded_value_to_u32 on a Multiple attribute returns an error
\* whenever an id in MultipleIds is >= 32, and otherwise exactly the OR of
\* 1 << id over all ids: no id dropped, none wrapped.
C10_MultipleIdsExact ==
    (/\ call.op = "encoded_value_to_u32"
     /\ call.entry.value_type = "Multiple"
     /\ call.v.enc = "MultipleIds") =>
        LET ids == {call.v.ids[k] : k \in 1..Len(call.v.ids)} IN
        IF \E id \in ids : id >= 32
        THEN ~result.ok
        ELSE result.ok /\ IsWord(result.val) /\ BitsSet(result.val) = ids

\* an id of 32 after a good one was refused
C10_Witness ==
    /\ call.op = "encoded_value_to_u32"
    /\ call.entry.value_type = "Multiple"
    /\ call.v = MultipleIds(<<0, WordBits>>)
    /\ ~result.ok

(***************************************************************************)
(* Claims about the key compiler (SpecKey).                                *)
(***************************************************************************)
KeyOps ==
    {"merged_requirements_to_key_bits", "merged_requirements_to_key_bits_per_attr"}

\* the OR of ladder(list[k]) over the bounds of a list, as a set of bits
GeBitsOf(list, thresholds) ==
    UNION {requirement_ge_to_threshold_bits(list[k], thresholds) :
              k \in 1..Len(list)}

LtBitsOf(list, thresholds) ==
    UNION {requirement_lt_to_threshold_bits(list[k], thresholds) :
              k \in 1..Len(list)}

\* the threshold slot the call returned: the last 32 characters of the
\* concatenated key, the "Src.TrustScore.Threshold" entry of the map
ReturnedThresholdSlot ==
    IF call.op = "merged_requirements_to_key_bits"
    THEN SubSeq(result.val[1], Len(result.val[1]) - WordBits + 1,
                Len(result.val[1]))
    ELSE IF "Src.TrustScore.Threshold" \in DOMAIN result.val[1]
    THEN result.val[1]["Src.TrustScore.Threshold"]
    ELSE ""

\* C11: when the threshold path is used, the threshold slot of either form
\* is the OR of the ge-ladder bits of the merged lower bound and the
\* lt-ladder bits of the merged upper bound.
C11_ThresholdSlotIsOrOfLadders ==
    (/\ call.op \in KeyOps
     /\ result.ok
     /\ result.val[2].use_trust_score_threshold) =>
        ReturnedThresholdSlot
            = u32_to_bit_string(
                  GeBitsOf(call.merged.trust_score_required_ge,
                           call.trust_score_thresholds)
                  \cup LtBitsOf(call.merged.trust_score_required_lt,
                                call.trust_score_thresholds))

NeedsThreshold ==
    \/ call.merged.trust_score_required_ge # <<>>
    \/ call.merged.trust_score_required_lt # <<>>

HasThresholdEntry ==
    /\ call.op = "merged_requirements_to_key_bits_per_attr"
    /\ "Src.TrustScore.Threshold" \in DOMAIN result.val[1]

\* C12 as stated: for every attribute order, the flag is true and the
\* per-attribute form has a "Src.TrustScore.Threshold" entry exactly when
\* one of the merged trust-score bound lists is non-empty.
C12_FlagForEveryOrder ==
    (call.op \in KeyOps /\ result.ok) =>
        /\ result.val[2].use_trust_score_threshold = NeedsThreshold
        /\ call.op = "merged_requirements_to_key_bits_per_attr"
            => (HasThresholdEntry = NeedsThreshold)

\* C12: for every attribute order that contains "Src.TrustScore", the flag
\* is true and the per-attribute form has a "Src.TrustScore.Threshold" entry
\* exactly when one of the merged trust-score bound lists is non-empty; for
\* an order without "Src.TrustScore" the flag is false and there is no entry.
C12_FlagFollowsTrustScoreSlot ==
    (call.op \in KeyOps /\ result.ok) =>
        LET used == /\ NeedsThreshold
                    /\ Contains(call.source_attr_order, "Src.TrustScore")
        IN  /\ result.val[2].use_trust_score_threshold = used
            /\ call.op = "merged_requirements_to_key_bits_per_attr"
                => (HasThresholdEntry = used)

\* a lower bound compiled under an order without a "Src.TrustScore" slot:
\* no flag and no threshold entry
C12_Witness ==
    /\ call.op = "merged_requirements_to_key_bits_per_attr"
    /\ call.source_attr_order = <<"Src.Groups", "Src.Role">>
    /\ call.merged.trust_score_required_ge = <<1>>
    /\ result.ok
    /\ ~result.val[2].use_trust_score_threshold
    /\ "Src.TrustScore.Threshold" \notin DOMAIN result.val[1]

(***************************************************************************)
(* Claims about requirement extraction (SpecCollect).                      *)
(***************************************************************************)
\* a source whose only attribute is the numeric attribute attr, at value v
ProbeSource(attr, v) ==
    Entity("10.0.0.9", (SourceEntityAttributeKey[attr] :> NumberValue(v)))

\* the values tried for the attribute: around every number of the model
ProbeValues == (0 - 2)..(2 * MaxNum + 2)

\* v >= g for each g in required_ge and v < l for each l in required_lt
SatisfiesNumeric(req, v) ==
    /\ \A i \in 1..Len(req.required_ge) : v >= req.required_ge[i]
    /\ \A i \in 1..Len(req.required_lt) : v < req.required_lt[i]

\* C13: every Numeric requirement extracted from a Gte, Gt or Lt leaf is a
\* necessary condition of the leaf: every value of the attribute that makes
\* the comparison true satisfies the requirement, whichever side the
\* attribute is on.
C13_NumericIsNecessary ==
    (/\ call.op = "collect_src_requirements"
     /\ call.condition.c \in {"Gte", "Gt", "Lt"}
     /\ result.ok) =>
        \A k \in 1..Len(result.val) :
            result.val[k].r = "Numeric" =>
                \A v \in ProbeValues, env \in Envs :
                    Condition_evaluate(call.condition,
                                       ProbeSource(result.val[k].attr, v),
                                       call.dest, env) = Ok(TRUE)
                    => SatisfiesNumeric(result.val[k], v)

(***************************************************************************)
(* More claims about the evaluator and the filter (SpecEval).              *)
(***************************************************************************)
\* the two sides of a leaf
LeafSides(cond) ==
    CASE cond.c = "In" -> <<cond.target, cond.check_against>>
      [] cond.c = "InSet" -> <<cond.value, cond.set>>
      [] OTHER -> <<cond.lhs, cond.rhs>>

\* the expression contains a Src attribute reference or an Env reference,
\* at the top or nested in Add / Multiply
RECURSIVE ContainsSrcOrEnv(_)
ContainsSrcOrEnv(expr) ==
    CASE expr.e = "AttributeRef" -> StartsWith(expr.name, "Src.")
      [] expr.e = "EnvRef" -> TRUE
      [] expr.e \in {"Add", "Multiply"} ->
            \E i \in 1..Len(expr.operands) : ContainsSrcOrEnv(expr.operands[i])
      [] OTHER -> FALSE

IsLeaf(cond) == cond.c \notin {"And", "Or"}

\* C14: in evaluate_dest_only a leaf with a side that contains a Src
\* attribute reference or an Env reference returns Ok(true) without being
\* evaluated, and references_src_or_env is true of every such side.
C14_SrcOrEnvLeafIsTrue ==
    (/\ call.op = "evaluate_dest_only"
     /\ IsLeaf(call.cond)
     /\ \E i \in 1..2 : ContainsSrcOrEnv(LeafSides(call.cond)[i])) =>
        /\ result = Ok(TRUE)
        /\ \A i \in 1..2 :
              ContainsSrcOrEnv(LeafSides(call.cond)[i])
              => references_src_or_env(LeafSides(call.cond)[i])

\* what each operand of the called And / Or evaluates to on the call's inputs
OperandResults ==
    [i \in 1..Len(call.cond.operands) |->
        Condition_evaluate(call.cond.operands[i], call.source,
                           call.destination, call.env)]

\* the operands that end the loop: an error, or the deciding boolean
Deciding(decides) ==
    {i \in DOMAIN OperandResults :
        ~OperandResults[i].ok \/ OperandResults[i].val = decides}

\* the result of the first deciding operand, or the default when none decides
FirstDeciding(decides) ==
    IF Deciding(decides) = {} THEN Ok(~decides)
    ELSE LET first == CHOOSE i \in Deciding(decides) :
                          \A j \in Deciding(decides) : i <= j
         IN  IF OperandResults[first].ok THEN Ok(decides)
             ELSE OperandResults[first]

\* C15: And / Or evaluate their operands left to right and stop at the
\* first deciding operand: And is Ok(false) at the first false operand and
\* Or is Ok(true) at the first true operand, whatever later operands would
\* give (an error included); an error in an operand that is reached is the
\* result; empty And is Ok(true) and empty Or is Ok(false).
C15_ShortCircuit ==
    (call.op = "evaluate" /\ ~IsLeaf(call.cond)) =>
        result = FirstDeciding(call.cond.c = "Or")

\* an And whose first operand is false and whose second operand fails
C15_Witness ==
    /\ call.op = "evaluate"
    /\ call.cond.c = "And"
    /\ Len(call.cond.operands) = 2
    /\ OperandResults[1] = Ok(FALSE)
    /\ ~OperandResults[2].ok
    /\ result = Ok(FALSE)

\* what the two sides of the called leaf evaluate to on the call's inputs
SideValues ==
    [i \in 1..2 |->
        Expression_evaluate(LeafSides(call.cond)[i], call.source,
                            call.destination, call.env)]

\* an In / InSet leaf was evaluated and both of its sides have a value
MembershipCase ==
    /\ call.op = "evaluate"
    /\ call.cond.c \in {"In", "InSet"}
    /\ SideValues[1].ok
    /\ SideValues[2].ok

\* the string is an element of the set
IsMember(string, set) == \E k \in 1..Len(set.v) : set.v[k] = string.v

\* C16 as stated: In and InSet are the membership test when one side is a
\* String and the other a Set, in either operand position, and an error
\* for every other pair of variants.
C16_EitherPosition ==
    MembershipCase =>
        LET a == SideValues[1].val
            b == SideValues[2].val
        IN  IF a.t = "String" /\ b.t = "Set" THEN result = Ok(IsMember(a, b))
            ELSE IF a.t = "Set" /\ b.t = "String"
            THEN result = Ok(IsMember(b, a))
            ELSE ~result.ok

\* C16: In and InSet are the membership test when the first operand
\* (target / value) is a String and the second (check_against / set) is a
\* Set, and an error, never Ok(false), for every other pair of variants,
\* the pair (Set, String) included.
C16_StringThenSet ==
    MembershipCase =>
        LET a == SideValues[1].val
            b == SideValues[2].val
        IN  IF a.t = "String" /\ b.t = "Set" THEN result = Ok(IsMember(a, b))
            ELSE ~result.ok

\* In with the Set as target and a String that is in it: an error
C16_Witness ==
    /\ MembershipCase
    /\ call.cond.c = "In"
    /\ SideValues[1].val.t = "Set"
    /\ SideValues[2].val.t = "String"
    /\ IsMember(SideValues[2].val, SideValues[1].val)
    /\ ~result.ok

(***************************************************************************)
(* More claims about the classifier (SpecClassifier).                      *)
(***************************************************************************)
\* the positions, in policy order then rule order, of the rules applicable
\* to dest
ApplicablePositions(dest) ==
    {k \in 1..Len(FlatRules(call.policies)) :
        StatedApplicable(FlatRules(call.policies)[k], dest)}

BuiltAlone(dest) ==
    build_dest_requirement_bits(call.policies, <<dest>>, call.attr_id_map,
                                call.source_attr_order,
                                call.trust_score_thresholds)

\* C18: in every successful call of build_dest_requirement_bits the entry
\* of each destination (its ip, bit-string map and KeySemantics) is the one
\* the call produces when that destination is the only one, whatever the
\* other destinations and their order.
C18_PerDestIndependent ==
    (call.op = "build_dest_requirement_bits" /\ result.ok) =>
        /\ Len(result.val) = Len(call.dest_entities)
        /\ \A i \in 1..Len(call.dest_entities) :
              BuiltAlone(call.dest_entities[i]) = Ok(<<result.val[i]>>)

\* a successful call on two destinations whose keys differ
C18_Witness ==
    /\ call.op = "build_dest_requirement_bits"
    /\ result.ok
    /\ Len(call.dest_entities) = 2
    /\ result.val[1][2] # result.val[2][2]
    /\ result.val[1][3] # result.val[2][3]

(***************************************************************************)
(* More claims about requirement extraction (SpecCollect).                 *)
(***************************************************************************)
\* what each operand of the called And / Or gives on the call's destination
OperandRequirements ==
    [i \in 1..Len(call.condition.operands) |->
        collect_src_requirements(call.condition.operands[i], call.dest)]

\* the lists of a sequence of successful results, one after the other
RECURSIVE Flatten(_)
Flatten(results) ==
    IF results = <<>> THEN <<>>
    ELSE Head(results).val \o Flatten(Tail(results))

\* the same operands under the other connective
OtherConnective(condition) ==
    IF condition.c = "And" THEN Or(condition.operands)
    ELSE And(condition.operands)

\* C19: collect_src_requirements treats And and Or identically: the result
\* is the concatenation, in operand order, of the operands' requirements,
\* and an error from any operand makes the whole call an error.
C19_AndOrConcatenate ==
    (call.op = "collect_src_requirements" /\ ~IsLeaf(call.condition)) =>
        /\ result = collect_src_requirements(OtherConnective(call.condition),
                                             call.dest)
        /\ IF \A i \in DOMAIN OperandRequirements : OperandRequirements[i].ok
           THEN result = Ok(Flatten(OperandRequirements))
           ELSE ~result.ok

\* an Or of two operands with different requirements, pooled in order
C19_Witness ==
    /\ call.op = "collect_src_requirements"
    /\ call.condition.c = "Or"
    /\ Len(call.condition.operands) = 2
    /\ OperandRequirements[1].ok
    /\ OperandRequirements[2].ok
    /\ Len(OperandRequirements[1].val) = 1
    /\ Len(OperandRequirements[2].val) = 1
    /\ OperandRequirements[1] # OperandRequirements[2]
    /\ result = Ok(OperandRequirements[1].val \o OperandRequirements[2].val)

\* the expression is a bare reference to a Src attribute
IsBareSrc(expr) == expr.e = "AttributeRef" /\ StartsWith(expr.name, "Src.")

\* C20: for an Eq leaf collect_src_requirements returns Ok of the empty
\* list, not an error and not an Exact requirement, whenever both sides are
\* bare Src references, neither side is, or the side opposite the bare Src
\* reference contains a Src or Env reference.
C20_EqWithoutRequirement ==
    (/\ call.op = "collect_src_requirements"
     /\ call.condition.c = "Eq"
     /\ \/ IsBareSrc(call.condition.lhs) /\ IsBareSrc(call.condition.rhs)
        \/ ~IsBareSrc(call.condition.lhs) /\ ~IsBareSrc(call.condition.rhs)
        \/ IsBareSrc(call.condition.lhs) /\ ContainsSrcOrEnv(call.condition.rhs)
        \/ IsBareSrc(call.condition.rhs) /\ ContainsSrcOrEnv(call.condition.lhs))
    => result = Ok(<<>>)

\* the value of a side that contains no Src or Env reference, on the
\* call's destination
IndependentValue(expr) ==
    Expression_evaluate(expr, dummy_source, call.dest, empty_env)

\* the side is Src/Env-independent and its value is a number
IsIndependentNumber(expr) ==
    /\ ~ContainsSrcOrEnv(expr)
    /\ IndependentValue(expr).ok
    /\ IndependentValue(expr).val.t = "Number"

EqualSteps ==
    {i \in 0..(Len(call.thresholds) - 1) :
        i < 32 /\ call.thresholds[i + 1] = call.threshold}

\* C22: requirement_lt_to_threshold_bits sets at most one bit: the bit of
\* the smallest index i < 32 with thresholds[i] = threshold, and no bit
\* when there is no such index.
C22_LtLadderFirstExactStep ==
    call.op = "requirement_lt_to_threshold_bits" =>
        /\ IsWord(result)
        /\ BitsSet(result) = {i \in EqualSteps : \A j \in EqualSteps : i <= j}

\* a ladder that holds the threshold twice: only the first step's bit
C22_Witness ==
    /\ call.op = "requirement_lt_to_threshold_bits"
    /\ call.thresholds = <<1, 1>>
    /\ call.threshold = 1
    /\ result = Shl1(0)

(***************************************************************************)
(* More claims about merging (SpecMerge).                                  *)
(***************************************************************************)
\* the values one requirement contributes to the allowed-list `list`
ContributionOf(req, list) ==
    CASE list = "role_allowed" /\ req.r = "Exact" /\ req.attr = "Src.Role"
         /\ req.value.t = "String" -> <<req.value.v>>
      [] list = "dept_allowed" /\ req.r = "Exact" /\ req.attr = "Src.Dept"
         /\ req.value.t = "String" -> <<req.value.v>>
      [] list = "groups_allowed" /\ req.r = "Containment"
         /\ req.attr = "Src.Groups" -> req.allowed_set
      [] OTHER -> <<>>

\* the contributions of all requirements, in input order
RECURSIVE Contributed(_, _)
Contributed(requirements, list) ==
    IF requirements = <<>> THEN <<>>
    ELSE ContributionOf(Head(requirements), list)
         \o Contributed(Tail(requirements), list)

\* where x first occurs in seq
FirstIndex(seq, x) ==
    CHOOSE i \in 1..Len(seq) : seq[i] = x /\ \A j \in 1..(i - 1) : seq[j] # x

\* merged lists the values of contributed, each once, in the order of their
\* first occurrence
IsFirstOccurrenceList(merged, contributed) ==
    /\ \A i, j \in 1..Len(merged) : i # j => merged[i] # merged[j]
    /\ {merged[i] : i \in 1..Len(merged)}
           = {contributed[i] : i \in 1..Len(contributed)}
    /\ \A i, j \in 1..Len(merged) :
          i < j => FirstIndex(contributed, merged[i])
                     < FirstIndex(contributed, merged[j])

\* C23: after merge_requirements, role_allowed, dept_allowed and
\* groups_allowed hold no value twice and list, in order of first
\* occurrence, exactly the string values of the Exact requirements on
\* "Src.Role" / "Src.Dept" and the members of the Containment requirements
\* on "Src.Groups"; other Containments and non-string Exact values
\* contribute nothing.
C23_AllowedListsFirstOccurrence ==
    call.op = "merge_requirements" =>
        /\ result.ok
        /\ \A list \in {"role_allowed", "dept_allowed", "groups_allowed"} :
              IsFirstOccurrenceList(result.val[list],
                                    Contributed(call.requirements, list))

\* a non-string Exact on Src.Role, then a role given twice around another
C23_Witness ==
    /\ call.op = "merge_requirements"
    /\ call.requirements
          = <<Exact("Src.Role", NumberValue(1)),
              Exact("Src.Role", StringValue("faculty")),
              Exact("Src.Role", StringValue("student")),
              Exact("Src.Role", StringValue("faculty"))>>
    /\ result.ok
    /\ result.val.role_allowed = <<"faculty", "student">>

(***************************************************************************)
(* Partial and full evaluation compared (SpecEval).                        *)
(***************************************************************************)
\* no expression of the condition references Src or Env, every And / Or
\* has an operand, and every leaf references a Dst attribute
RECURSIVE NeedsNoSource(_)
NeedsNoSource(cond) ==
    IF ~IsLeaf(cond)
    THEN /\ cond.operands # <<>>
         /\ \A i \in 1..Len(cond.operands) : NeedsNoSource(cond.operands[i])
    ELSE /\ \A i \in 1..2 : ~ContainsSrcOrEnv(LeafSides(cond)[i])
         /\ \E i \in 1..2 : Expression_references_dst(LeafSides(cond)[i])

\* C24: on a condition that needs no source, evaluate_dest_only(C, D)
\* returns the Result Condition::evaluate(C, S, D, env) returns, the same
\* boolean or the same error, for every source S and environment env.
C24_DestOnlyEqualsFull ==
    (call.op = "evaluate_dest_only" /\ NeedsNoSource(call.cond)) =>
        \A source \in Sources, env \in Envs :
            Condition_evaluate(call.cond, source, call.dest_entity, env) = result

\* an And whose first operand is an Or of Dst leaves that are all false on
\* the destination: Ok(false), as in full evaluation
C24_Witness ==
    /\ call.op = "evaluate_dest_only"
    /\ NeedsNoSource(call.cond)
    /\ call.cond.c = "And"
    /\ call.cond.operands[1].c = "Or"
    /\ evaluate_dest_only(call.cond.operands[1], call.dest_entity) = Ok(FALSE)
    /\ result = Ok(FALSE)

(***************************************************************************)
(* In and InSet in requirement extraction (SpecCollect).                   *)
(***************************************************************************)
\* the same two expressions under the other membership shape
OtherShape(condition) ==
    IF condition.c = "In"
    THEN InSet(condition.target, condition.check_against)
    ELSE In(condition.value, condition.set)

\* C25: collect_src_requirements gives the same result for In{target: a,
\* check_against: b} and InSet{value: a, set: b}; a bare Src attribute in
\* the element position with a Src/Env-independent Set on the other side
\* gives Containment{attr, allowed_set} in both shapes.
C25_InAndInSetAlike ==
    (call.op = "collect_src_requirements"
     /\ call.condition.c \in {"In", "InSet"}) =>
        /\ result = collect_src_requirements(OtherShape(call.condition),
                                             call.dest)
        /\ (/\ IsBareSrc(LeafSides(call.condition)[1])
             /\ ~ContainsSrcOrEnv(LeafSides(call.condition)[2])
             /\ IndependentValue(LeafSides(call.condition)[2]).ok
             /\ IndependentValue(LeafSides(call.condition)[2]).val.t = "Set")
            => result = Ok(<<[r |-> "Containment",
                              attr |-> LeafSides(call.condition)[1].name,
                              allowed_set |->
                                  IndependentValue(
                                      LeafSides(call.condition)[2]).val.v]>>)

(***************************************************************************)
(* i64 arithmetic at full width (SpecArith).  The evaluator above adds and *)
(* multiplies small numbers, where every intermediate value is exact; here *)
(* the same `+` and `*` are computed on all 64 bits.  TLC's integers stop  *)
(* short of 2^63, so an i64 is kept in two's complement as its eight       *)
(* bytes, the lowest first, and a wider word as more bytes.                *)
(***************************************************************************)
\* the width of AttributeValue::Number(i64)
I64Bits == 64

\* a byte holds 0 .. LimbBase - 1
LimbBase == 2 ^ 8

\* the bytes of an i64
I64Limbs == I64Bits \div 8

\* n >= 0 in len bytes, for n < 2^31 (the integers TLC has)
Limbs(n, len) ==
    [i \in 1..len |->
        IF i <= 4 THEN (n \div (LimbBase ^ (i - 1))) % LimbBase ELSE 0]

\* n as i64, for -2^31 <= n < 2^31
I64(n) ==
    IF n >= 0 THEN Limbs(n, I64Limbs)
    ELSE [i \in 1..I64Limbs |-> LimbBase - 1 - Limbs(-n - 1, I64Limbs)[i]]

\* i64::MAX and i64::MIN
I64_MAX ==
    [i \in 1..I64Limbs |->
        IF i = I64Limbs THEN (LimbBase \div 2) - 1 ELSE LimbBase - 1]

I64_MIN == [i \in 1..I64Limbs |-> IF i = I64Limbs THEN LimbBase \div 2 ELSE 0]

\* the sign bit of a word
IsNegative(a) == a[Len(a)] >= LimbBase \div 2

\* a word widened to `to` bytes with its value kept
SignExtend(a, to) ==
    [i \in 1..to |->
        IF i <= Len(a) THEN a[i]
        ELSE IF IsNegative(a) THEN LimbBase - 1 ELSE 0]

\* a + b modulo 2^(8 Len(a)) byte by byte with the carry, from byte i on
RECURSIVE AddLimbs(_, _, _, _)
AddLimbs(a, b, i, carry) ==
    IF i > Len(a) THEN <<>>
    ELSE CHOOSE r \in
            { <<n % LimbBase>> \o AddLimbs(a, b, i + 1, n \div LimbBase) :
              n \in {a[i] + b[i] + carry} } : TRUE

\* the sum of the byte products a[i] * b[j] with i + j = k + 1, from i on
RECURSIVE ColumnSum(_, _, _, _)
ColumnSum(a, b, k, i) ==
    IF i > k THEN 0
    ELSE a[i] * b[k - i + 1] + ColumnSum(a, b, k, i + 1)

\* a * b modulo 2^(8 Len(a)) column by column with the carry, from column k
RECURSIVE MulLimbs(_, _, _, _)
MulLimbs(a, b, k, carry) ==
    IF k > Len(a) THEN <<>>
    ELSE CHOOSE r \in
            { <<n % LimbBase>> \o MulLimbs(a, b, k + 1, n \div LimbBase) :
              n \in {ColumnSum(a, b, k, 1) + carry} } : TRUE

\* the product of two i64 in 128 bits, where it is exact
WideProduct(a, b) ==
    MulLimbs(SignExtend(a, 2 * I64Limbs), SignExtend(b, 2 * I64Limbs), 1, 0)

\* a panic: the thread unwinds, no Result is returned
Panic(msg) == [ok |-> FALSE, panic |-> msg]

\* a + b on i64: with overflow checks (the default of a debug build) an
\* overflow panics, without them (the default of a release build) it wraps
I64Add(overflow_checks, a, b) ==
    CHOOSE r \in
        { IF /\ overflow_checks
             /\ IsNegative(a) = IsNegative(b)
             /\ IsNegative(s) # IsNegative(a)
          THEN Panic("attempt to add with overflow")
          ELSE Ok(s) :
          s \in {AddLimbs(a, b, 1, 0)} } : TRUE

\* a * b on i64, in the same two builds
I64Mul(overflow_checks, a, b) ==
    CHOOSE r \in
        { IF /\ overflow_checks
             /\ p # SignExtend(SubSeq(p, 1, I64Limbs), 2 * I64Limbs)
          THEN Panic("attempt to multiply with overflow")
          ELSE Ok(SubSeq(p, 1, I64Limbs)) :
          p \in {WideProduct(a, b)} } : TRUE

\* values.iter().sum() (op "sum") and values.iter().product(): the fold
\* from the left, from 0 and from 1
RECURSIVE I64Fold(_, _, _, _)
I64Fold(op, overflow_checks, acc, values) ==
    IF values = <<>> THEN Ok(acc)
    ELSE CHOOSE r \in
            { IF step.ok
              THEN I64Fold(op, overflow_checks, step.val, Tail(values))
              ELSE step :
              step \in { IF op = "sum"
                         THEN I64Add(overflow_checks, acc, Head(values))
                         ELSE I64Mul(overflow_checks, acc, Head(values)) } } : TRUE

\* Ok(AttributeValue::Number(values?.iter().sum())) for values = Ok(..)
AddNumbers(overflow_checks, values) ==
    I64Fold("sum", overflow_checks, I64(0), values)

\* Ok(AttributeValue::Number(values?.iter().product())) for values = Ok(..)
MultiplyNumbers(overflow_checks, values) ==
    I64Fold("product", overflow_checks, I64(1), values)

\* required_ge: vec![t + 1] (and required_lt: vec![t + 1]) of the Gt arm
GtBound(overflow_checks, t) == I64Add(overflow_checks, t, I64(1))

\* the operands: small ones of both signs and the two ends of i64
WideNumbers == {I64(1), I64(-1), I64(2), I64_MAX, I64_MIN}

CallAddNumbers ==
    /\ call = Idle
    /\ \E overflow_checks \in BOOLEAN,
          values \in SeqsOf(WideNumbers, 0, MaxOperands) :
        /\ call' = [op |-> "add_numbers",
                    overflow_checks |-> overflow_checks, values |-> values]
        /\ result' = AddNumbers(overflow_checks, values)

CallMultiplyNumbers ==
    /\ call = Idle
    /\ \E overflow_checks \in BOOLEAN,
          values \in SeqsOf(WideNumbers, 0, MaxOperands) :
        /\ call' = [op |-> "multiply_numbers",
                    overflow_checks |-> overflow_checks, values |-> values]
        /\ result' = MultiplyNumbers(overflow_checks, values)

CallGtBound ==
    /\ call = Idle
    /\ \E overflow_checks \in BOOLEAN, t \in WideNumbers :
        /\ call' = [op |-> "gt_bound",
                    overflow_checks |-> overflow_checks, t |-> t]
        /\ result' = GtBound(overflow_checks, t)

NextArith ==
    \/ CallAddNumbers
    \/ CallMultiplyNumbers
    \/ CallGtBound

SpecArith == Init /\ [][NextArith]_vars

(***************************************************************************)
(* Merging and compiling in one step, as the classifier does per           *)
(* destination (SpecCompile).                                              *)
(***************************************************************************)
\* requirements as collect_src_requirements returns them for several rules
CompileRequirementSet ==
    { Exact("Src.Role", StringValue("student")),
      Exact("Src.Role", StringValue("faculty")),
      Exact("Src.Role", StringValue("ghost")),
      Containment("Src.Groups", <<"staff", "ext">>),
      Numeric("Src.TrustScore", <<1>>, <<2>>),
      Numeric("Src.TrustScore", <<2>>, <<1>>) }

CallCompileRequirements ==
    /\ call = Idle
    /\ \E all_reqs \in SeqsOf(CompileRequirementSet, 0, MaxReqs),
          map \in KeySchemas, source_attr_order \in AttrOrders :
        /\ call' = [op |-> "compile_requirements",
                    all_reqs |-> all_reqs,
                    map |-> map,
                    source_attr_order |-> source_attr_order,
                    trust_score_thresholds |-> TrustThresholds]
        /\ result' = CompileRequirements(all_reqs, map, source_attr_order,
                                         TrustThresholds)

NextCompile == CallCompileRequirements

SpecCompile == Init /\ [][NextCompile]_vars

(***************************************************************************)
(* More claims about the key compiler (SpecKey).                           *)
(***************************************************************************)
\* the allowed-list of the merged requirements that the slot `name` encodes
AllowedOf(merged, name) ==
    CASE name = "Src.Role" -> merged.role_allowed
      [] name = "Src.Dept" -> merged.dept_allowed
      [] name = "Src.Groups" -> merged.groups_allowed
      [] OTHER -> <<>>

\* the 32 characters returned for the i-th name of the attribute order
ReturnedSlot(i) ==
    IF call.op = "merged_requirements_to_key_bits"
    THEN SubSeq(result.val[1], WordBits * (i - 1) + 1, WordBits * i)
    ELSE result.val[1][call.source_attr_order[i]]

\* bit id of a 32-character bit string, most significant bit first
HasBit(bits, id) == SubSeq(bits, WordBits - id, WordBits - id) = "1"

\* the value has an id in the schema and the id fits a word
Encodable(name, value) ==
    /\ value_to_id(call.map, name, value).ok
    /\ value_to_id(call.map, name, value).val < 32

\* C26: in both forms of the key compiler, a value of role_allowed,
\* dept_allowed or groups_allowed (of an attribute in the attribute order)
\* that is absent from the schema or has an id >= 32 makes the call an
\* error; on success the mask of the attribute has the bit of every allowed
\* value, when several values are allowed and always for Groups.
C26_NoAllowedValueLost ==
    call.op \in KeyOps =>
        \A i \in 1..Len(call.source_attr_order) :
            LET name == call.source_attr_order[i]
                allowed == AllowedOf(call.merged, name)
            IN  /\ (\E k \in 1..Len(allowed) : ~Encodable(name, allowed[k]))
                    => ~result.ok
                /\ (result.ok /\ (Len(allowed) > 1 \/ name = "Src.Groups"))
                    => \A k \in 1..Len(allowed) :
                          /\ Encodable(name, allowed[k])
                          /\ HasBit(ReturnedSlot(i),
                                    value_to_id(call.map, name, allowed[k]).val)

\* the merged requirements with the allowed-list of slot `name` replaced
WithAllowed(merged, name, allowed) ==
    IF name = "Src.Role" THEN [merged EXCEPT !.role_allowed = allowed]
    ELSE [merged EXCEPT !.dept_allowed = allowed]

\* the allowed-lists the key compiler is called with for slot `name`
AllowedLists(name) == IF name = "Src.Role" THEN RoleLists ELSE DeptLists

\* every value of the list has an id in the schema of the call
AllKnown(name, allowed) ==
    \A k \in 1..Len(allowed) : value_to_id(call.map, name, allowed[k]).ok

\* the set of ids the allowed-list maps to in the schema of the call
IdSet(name, allowed) ==
    {value_to_id(call.map, name, allowed[k]).val : k \in 1..Len(allowed)}

\* the slot the called form computes for `name` from other requirements
SlotOfForm(merged, name) ==
    IF call.op = "merged_requirements_to_key_bits"
    THEN Slot(call.map, merged, name)
    ELSE SlotPerAttr(call.map, merged, name)

\* C27: for a fixed schema the Src.Role slot (and the Src.Dept slot)
\* identifies the allowed set: two allowed-lists that map to different sets
\* of ids (the empty set included) never yield the same 32-bit slot, across
\* the three encodings 0, raw id and OR-mask.
C27_SlotIdentifiesAllowedSet ==
    (call.op \in KeyOps /\ result.ok) =>
        \A i \in 1..Len(call.source_attr_order) :
            LET name == call.source_attr_order[i]
                mine == AllowedOf(call.merged, name)
            IN  (name \in {"Src.Role", "Src.Dept"} /\ AllKnown(name, mine)) =>
                    \A theirs \in AllowedLists(name) :
                        LET other == SlotOfForm(WithAllowed(call.merged, name, theirs), name)
                        IN  (/\ AllKnown(name, theirs)
                             /\ other.ok
                             /\ IdSet(name, mine) # IdSet(name, theirs))
                            => u32_to_bit_string(other.val) # ReturnedSlot(i)

(***************************************************************************)
(* Claims about merging followed by compiling (SpecCompile).               *)
(***************************************************************************)
\* the list with its elements in the order the permutation p gives
Reordered(list, p) == [i \in 1..Len(list) |-> list[p[i]]]

\* C28: the compiled key does not depend on the order in which the
\* requirements were collected: merge_requirements followed by
\* merged_requirements_to_key_bits_per_attr returns, for every permutation
\* of the list, the same per-attribute bit strings and the same
\* KeySemantics (or the same error).
C28_OrderOfCollectionIrrelevant ==
    call.op = "compile_requirements" =>
        \A p \in Permutations(1..Len(call.all_reqs)) :
            CompileRequirements(Reordered(call.all_reqs, p), call.map,
                                call.source_attr_order,
                                call.trust_score_thresholds) = result

\* a bound and two roles collected with the later role first: the key is
\* compiled, with both roles in the mask and a threshold slot
C28_Witness ==
    /\ call.op = "compile_requirements"
    /\ call.all_reqs = << Numeric("Src.TrustScore", <<1>>, <<2>>),
                          Exact("Src.Role", StringValue("faculty")),
                          Exact("Src.Role", StringValue("student")) >>
    /\ call.source_attr_order =
            <<"Src.Role", "Src.Dept", "Src.TrustScore", "Src.Groups">>
    /\ result.ok
    /\ HasBit(result.val[1]["Src.Role"], 0)
    /\ HasBit(result.val[1]["Src.Role"], 1)
    /\ result.val[2].use_trust_score_threshold

(***************************************************************************)
(* Claims about i64 arithmetic (SpecArith).                                *)
(***************************************************************************)
\* a number of bytes in which the sum and the product of the operands are
\* exact
ExactLimbs == I64Limbs * (MaxOperands + 1)

\* the sum (op "sum") or product of acc and the values, in ExactLimbs bytes
RECURSIVE ExactFold(_, _, _)
ExactFold(op, acc, values) ==
    IF values = <<>> THEN acc
    ELSE CHOOSE r \in
            { ExactFold(op, next, Tail(values)) :
              next \in { IF op = "sum"
                         THEN AddLimbs(acc, SignExtend(Head(values), ExactLimbs), 1, 0)
                         ELSE MulLimbs(acc, SignExtend(Head(values), ExactLimbs), 1, 0) } } : TRUE

\* a < b as i64
SignedLess(a, b) ==
    IF IsNegative(a) # IsNegative(b)
    THEN IsNegative(a)
    ELSE \E i \in 1..I64Limbs :
            /\ a[i] < b[i]
            /\ \A j \in (i + 1)..I64Limbs : a[j] = b[j]

\* the call returned the number whose value is `exact`
ReturnsExactly(exact) ==
    /\ result.ok
    /\ SignExtend(result.val, ExactLimbs) = exact

\* C29: for all i64 operands Add and Multiply return the exact sum or
\* product or an error, and never panic; the bound t + 1 of the Gt arm is
\* returned and is strictly greater than t, at t = i64::MAX too.
C29_NoSilentOverflowNoFault ==
    /\ call.op = "add_numbers" =>
            ReturnsExactly(ExactFold("sum", SignExtend(I64(0), ExactLimbs), call.values))
    /\ call.op = "multiply_numbers" =>
            ReturnsExactly(ExactFold("product", SignExtend(I64(1), ExactLimbs), call.values))
    /\ call.op = "gt_bound" => (result.ok /\ SignedLess(call.t, result.val))

====
